---- MODULE Spec2Model ----
(***************************************************************************)
(* A model of bang's resource orchestration engine: the stage planner      *)
(* (bang/resources.py, bang/deployers/__init__.py), the orchestrator       *)
(* (bang/stack.py), the per-kind deployers (bang/deployers/cloud.py), the   *)
(* coordination primitives (bang/util.py), the provider clients            *)
(* (bang/providers) and the configuration loader (bang/config.py).         *)
(***************************************************************************)
EXTENDS Integers, Sequences, FiniteSets, TLC

\* ------------------------------------------------------------------ bounds
MaxInstances == 2   \* largest instance_count of the server spec
MaxExisting == 2    \* servers already running when the run starts
MaxUnits == 3       \* deployers planned for one run
MaxFaults == 1      \* backend calls that are rejected in one run
MaxCallers == 3     \* concurrent add_if_unique callers
MaxIds == 2         \* distinct ids offered to add_if_unique
MaxRules == 3       \* distinct security group rules, and length of a declared list
MaxKeys == 2        \* distinct keys of a mapping given to deep_merge_dicts
MaxWorkers == 2     \* processes calling Stack.add_host at the same time
MaxTimeout == 5     \* largest timeout_s given to poll_with_timeout
MaxWake == 2        \* largest wake_every_s given to poll_with_timeout
MaxCalls == 4       \* get_provider and get_consul calls made in one process
MaxCreds == 2       \* distinct credentials dictionaries passed to get_provider
MaxRegioned == 2    \* regioned deployers run at the same time
MaxUnitCalls == 2   \* provider calls one regioned deployer makes
MaxMatches == 3     \* resources the backend lists for one lookup by name
MaxNodes == 3       \* backend nodes a load balancer has when match_lb_nodes is called
MaxFiles == 2       \* config specs given to Config.from_config_specs
MaxOps == 3         \* operations called on one Stack object
MaxDefs == 2        \* usable server definitions the backend lists for one name
MaxFinders == 2     \* units of one name that run find_def at the same time

\* ------------------------------------------------------- bang/resources.py
QUEUES == "queues"
BUCKETS == "buckets"
DATABASE_SECURITY_GROUPS == "database_security_groups"
DATABASE_SECURITY_GROUP_RULES == "database_security_group_rules"
DATABASES == "databases"
LOAD_BALANCERS == "load_balancers"
SERVER_SECURITY_GROUPS == "server_security_groups"
SERVER_SECURITY_GROUP_RULES == "server_security_group_rules"
SERVERS == "servers"
SSH_KEYS == "ssh_pub_keys"
DYNAMIC_LB_SEC_GROUPS == "_load_balancer_sec_groups"

\* A variant of the table with the rule-set stage ahead of the
\* security-group stage.
STAGES_rules_first ==
  << << SERVER_SECURITY_GROUP_RULES >>,
     << DATABASE_SECURITY_GROUPS, SERVER_SECURITY_GROUPS, QUEUES, BUCKETS,
        SSH_KEYS >>,
     << DATABASES, SERVERS >>,
     << LOAD_BALANCERS >>,
     << DATABASE_SECURITY_GROUP_RULES, DYNAMIC_LB_SEC_GROUPS >> >>

STAGES ==
  << << DATABASE_SECURITY_GROUPS, SERVER_SECURITY_GROUPS, QUEUES, BUCKETS,
        SSH_KEYS >>,
     << SERVER_SECURITY_GROUP_RULES >>,
     << DATABASES, SERVERS >>,
     << LOAD_BALANCERS >>,
     << DATABASE_SECURITY_GROUP_RULES, DYNAMIC_LB_SEC_GROUPS >> >>

Kinds == UNION { { STAGES[s][i] : i \in 1..Len(STAGES[s]) } : s \in 1..Len(STAGES) }

\* ---------------------------------------------------- provider dispatch
\* The resource kinds for which each provider class has a consul.
CONSUL_MAP ==
  [ aws |-> { SERVERS, SERVER_SECURITY_GROUPS, SERVER_SECURITY_GROUP_RULES,
              BUCKETS, DATABASES },
    openstack |-> { SERVERS, SSH_KEYS, SERVER_SECURITY_GROUPS,
                    SERVER_SECURITY_GROUP_RULES, BUCKETS, DATABASES } ]

\* The keys of bang.deployers.DEPLOYER_MAP.
DEPLOYER_MAP ==
  { SERVERS, SERVER_SECURITY_GROUPS, SERVER_SECURITY_GROUP_RULES, BUCKETS,
    DATABASES }

\* ------------------------------------------------------------------ state
VARIABLES
  action,          \* argument of Stack._run: "deploy" or "inventory"
  config,          \* stack configuration: provider, kinds present, instance_count,
                   \* kinds whose spec names an unregistered provider or has a
                   \* key with a hyphen or a space
  run,             \* 1 for the first run, 2 for a re-run on the resulting backend
  opc,             \* orchestrator: "idle", "run", "done", "failed"
  stage,           \* index of the stage being run (0-based, as enumerate gives it)
  nstarted,        \* children of the current stage started so far
  njoined,         \* children of the current stage joined so far
  errors,          \* Stack._run's errors counter
  raised,          \* what the run raised: exception type, and for the
                   \* BangError of a failed stage its stage and error count
  have_inventory,  \* Stack.have_inventory
  deployers,       \* what Stack.get_deployers returned: kind and stage of each deployer
  unit,            \* per deployer: process state and deployer fields
  names,           \* SharedNamespace.names of the server spec
  dicts,           \* Stack.groups_and_vars.dicts
  lists,           \* Stack.groups_and_vars.lists
  cloud,           \* backend resources
  cloud0,          \* backend resources when the current run started
  creates,         \* create calls issued in the current run
  faults,          \* backend calls rejected in the current run
  startSeq,        \* units in the order their processes were started
  exitSeq,         \* units in the order their processes exited
  inv1,            \* inventory at the end of the first run
  nslock,          \* SharedNamespace.lock: 0 when free, else the caller holding it
  nsnames,         \* SharedNamespace.names, for the concurrent callers below
  call,            \* per concurrent add_if_unique caller: name, position, result
  rd,              \* one find_existing call of a rule-set deployer: inputs, result
  dm,              \* one deep_merge_dicts call: base, incoming, base afterwards
  sm,              \* a SharedMap and the processes calling add_host on it
  pw,              \* one poll_with_timeout call: arguments, locals, what it did
  gp,              \* the provider cache of one process and the calls made on it
  rg,              \* regioned deployers run as processes: client copies, calls
  cm,              \* one CloudManagerServerDeployer run against its backend
  fs,              \* one lookup by name: backend listing, name, outcome
  lb,              \* one match_lb_nodes call: arguments, requests, backend nodes
  cf,              \* one Config.from_config_specs call: sources, config so far
  ops,             \* one Stack object and the operations called on it
  fd               \* units of one name in find_def: namespace, candidates

vars == << action, config, run, opc, stage, nstarted, njoined, errors, raised,
           have_inventory, deployers, unit, names, dicts, lists, cloud, cloud0, creates,
           faults, startSeq, exitSeq, inv1, nslock, nsnames, call, rd,
           dm, sm, pw, gp, rg, cm, fs, lb, cf, ops, fd >>

\* ------------------------------------------------------- stage planner
\* A variant that builds one deployer per spec.
instance_count_one(k) == 1

\* res_config.get('instance_count', 1): only the server spec carries the key.
instance_count(k) == IF k = SERVERS THEN config.instance_count ELSE 1

\* get_provider(pname, creds[pname]) raises Exception when PROVIDER_MAP has
\* no class for the name the spec gives.
ProviderRaises(k) ==
  /\ k \in config.present
  /\ k \in config.unregistered

\* A variant without the test of the consul.
Skipped_never(k) == FALSE

\* consul = provider.get_consul(res_type); if not consul: log.warn; continue
Skipped(k) == k \notin CONSUL_MAP[config.provider]

\* The deployers get_stage_deployers builds for one resource type.
TypeDeployers(k) ==
  IF k \notin config.present THEN << >>
  ELSE IF Skipped(k) THEN << >>
  ELSE [ i \in 1..instance_count(k) |-> k ]

\* A variant in which every kind has a deployer class.
TypeRaises_never(k) == FALSE

\* DEPLOYER_MAP[res_type] raises KeyError for a kind that has a consul but
\* no deployer class.
TypeRaises(k) ==
  /\ k \in config.present
  /\ ~Skipped(k)
  /\ k \notin DEPLOYER_MAP

\* A variant of Deployer.__init__ that accepts every key.
KeyRaises_never(k) == FALSE

\* deployer(stack, res_config, consul), called count times: Deployer.__init__
\* raises BangError for a key with a hyphen or a space.
KeyRaises(k) ==
  /\ k \in config.present
  /\ ~Skipped(k)
  /\ instance_count(k) > 0
  /\ k \in config.badkey

\* What the body of the loop over res_configs raises for the spec of kind k.
KindError(k) ==
  IF ProviderRaises(k) THEN "Exception"
  ELSE IF TypeRaises(k) THEN "KeyError"
  ELSE IF KeyRaises(k) THEN "BangError"
  ELSE "none"

RECURSIVE Concat(_, _)
Concat(keys, n) ==
  IF n = 0 THEN << >> ELSE Concat(keys, n - 1) \o TypeDeployers(keys[n])

\* get_stage_deployers(keys, stack): the kinds of the deployers of one stage.
get_stage_deployers(keys) == Concat(keys, Len(keys))

\* The resource types in the order get_deployers visits them: stage by
\* stage, each stage's keys in turn.
RECURSIVE PlanOrder(_)
PlanOrder(n) == IF n = 0 THEN << >> ELSE PlanOrder(n - 1) \o STAGES[n]

\* The first exception the visit from the i-th type on raises.
RECURSIVE FirstError(_, _)
FirstError(keys, i) ==
  IF i > Len(keys) THEN "none"
  ELSE IF KindError(keys[i]) # "none" THEN KindError(keys[i])
  ELSE FirstError(keys, i + 1)

\* What Stack.get_deployers raises: it builds the deployers of every stage
\* before any runs.
PlanError == FirstError(PlanOrder(Len(STAGES)), 1)

PlanRaises == PlanError # "none"

NStages == Len(STAGES)

\* The deployers of stages 0..n-1 in start order, each with its stage
\* (0-based, as enumerate numbers them).
RECURSIVE StagesUpTo(_)
StagesUpTo(n) ==
  IF n = 0 THEN << >>
  ELSE LET ks == get_stage_deployers(STAGES[n])
       IN StagesUpTo(n - 1) \o
            [ i \in 1..Len(ks) |-> [ kind |-> ks[i], stage |-> n - 1 ] ]

\* Resource instances the stack definition declares.
Declared ==
  Cardinality(config.present \ { SERVERS })
    + (IF SERVERS \in config.present THEN config.instance_count ELSE 0)

Units == 1..Len(deployers)
StageOf(u) == deployers[u].stage
KindOf(u) == deployers[u].kind
Corunners(s) == { u \in Units : StageOf(u) = s }
\* Number of deployers in the stages before s: unit ids of stage s follow it.
Base(s) == Cardinality({ u \in Units : StageOf(u) < s })
NChildren(s) == Cardinality(Corunners(s))

\* ------------------------------------------------------------ deployers
\* A variant in which the server deployer calls create unconditionally.
ServerPhases_always_create ==
  << [pred |-> "true", act |-> "find_existing"],
     [pred |-> "attrs", act |-> "wait_for_running"],
     [pred |-> "true", act |-> "create"],
     [pred |-> "true", act |-> "add_to_inventory"] >>

\* The (should_run, action) pairs each deployer class sets up in __init__.
ServerPhases ==
  << [pred |-> "true", act |-> "find_existing"],
     [pred |-> "attrs", act |-> "wait_for_running"],
     [pred |-> "not_attrs", act |-> "create"],
     [pred |-> "true", act |-> "add_to_inventory"] >>

SecurityGroupPhases ==
  << [pred |-> "true", act |-> "find_existing"],
     [pred |-> "not_attrs", act |-> "create"] >>

RulesetPhases ==
  << [pred |-> "true", act |-> "find_existing"],
     [pred |-> "changes", act |-> "apply_rule_changes"] >>

BucketPhases == << [pred |-> "true", act |-> "create"] >>

DatabasePhases ==
  << [pred |-> "true", act |-> "find_existing"],
     [pred |-> "not_attrs", act |-> "create"],
     [pred |-> "true", act |-> "add_to_inventory"] >>

\* self.phases of the deployer class DEPLOYER_MAP gives for kind k.
DeployPhases(k) ==
  CASE k = SERVERS -> ServerPhases
    [] k = SERVER_SECURITY_GROUPS -> SecurityGroupPhases
    [] k = SERVER_SECURITY_GROUP_RULES -> RulesetPhases
    [] k = BUCKETS -> BucketPhases
    [] k = DATABASES -> DatabasePhases

\* A variant in which an inventory run walks the deploy phases.
InventoryPhases_deploy(k) == DeployPhases(k)

\* self.inventory_phases: Deployer.__init__ leaves it empty; only the
\* server and database deployers fill it.
InventoryPhases(k) ==
  IF k \in { SERVERS, DATABASES }
  THEN << [pred |-> "true", act |-> "find_existing"],
          [pred |-> "true", act |-> "add_to_inventory"] >>
  ELSE << >>

\* Deployer.run(action) walks self.phases or self.inventory_phases.
Phases(k, a) == IF a = "deploy" THEN DeployPhases(k) ELSE InventoryPhases(k)

\* The should_run lambdas, over the deployer's own fields.
ShouldRun(p, r) ==
  CASE p = "true" -> TRUE
    [] p = "attrs" -> r.attrs # 0
    [] p = "not_attrs" -> r.attrs = 0
    [] p = "changes" -> r.create_these_rules # << >> \/ r.delete_these_rules # << >>
    [] p = "not_attrs_or_def" -> ~(r.attrs # 0 \/ r.server_def # 0)

\* A variant of the loop that calls every action, whatever its predicate.
NextPhase_always(ph, r, i) == IF i >= Len(ph) THEN 0 ELSE i + 1

\* Deployer.deploy / Deployer.inventory: the next phase after phase i whose
\* predicate holds, 0 when the loop is over.
RECURSIVE NextPhase(_, _, _)
NextPhase(ph, r, i) ==
  IF i >= Len(ph) THEN 0
  ELSE IF ShouldRun(ph[i + 1].pred, r) THEN i + 1
  ELSE NextPhase(ph, r, i + 1)

\* The should_run values the loop computes after phase i, in the order it
\* computes them: one per phase up to the next one whose action is called.
RECURSIVE Evals(_, _, _)
Evals(ph, r, i) ==
  IF i >= Len(ph) THEN << >>
  ELSE << [ idx |-> i + 1, val |-> ShouldRun(ph[i + 1].pred, r) ] >> \o
         (IF NextPhase(ph, r, i) = i + 1 THEN << >> ELSE Evals(ph, r, i + 1))

\* The loop goes on from phase i with fields r: the predicates evaluated and
\* the action called are added to the unit's record of what it did.
Enter(ph, r, i) ==
  [ r EXCEPT !.pi = NextPhase(ph, r, i),
             !.evals = @ \o Evals(ph, r, i),
             !.ran = IF NextPhase(ph, r, i) = 0 THEN @
                     ELSE Append(@, NextPhase(ph, r, i)) ]

\* Fields of a freshly constructed deployer whose process is not started:
\* claimed is the id find_existing claimed, evals and ran the predicates
\* evaluated and the actions called so far, calls the provider calls
\* apply_rule_changes has issued, err the exception a provider method
\* raised in the process.
NewUnit ==
  [ st |-> "new", pi |-> 0, sub |-> "call", attrs |-> 0,
    instances |-> << >>, maxnames |-> 0, cur |-> 0, tried |-> << >>,
    create_these_rules |-> << >>, delete_these_rules |-> << >>,
    claimed |-> 0, evals |-> << >>, ran |-> << >>, calls |-> << >>,
    err |-> "none" ]

Running(u) == unit[u].st = "running"
Exited(u) == unit[u].st \in { "exit0", "exit1" }
MyPhases(u) == Phases(KindOf(u), action)
Act(u) == MyPhases(u)[unit[u].pi].act
At(u, k, a) == Running(u) /\ unit[u].pi # 0 /\ KindOf(u) = k /\ Act(u) = a

\* The deployer's fields after an action returned: r with the phase index
\* moved to the next phase that should run.
Advance(u, r) == Enter(MyPhases(u), r, unit[u].pi)

\* ------------------------------------------------------------- inventory
RECURSIVE SortedSeq(_)
SortedSeq(S) ==
  IF S = { } THEN << >>
  ELSE LET m == CHOOSE x \in S : \A y \in S : x <= y
       IN << m >> \o SortedSeq(S \ { m })

Range(q) == { q[i] : i \in 1..Len(q) }

DbHost == 0
Rules == { 1, 2 }
DeclaredRules == << 1 >>
NativeId(rule) == 10 + rule

\* sg.rules of a group holding the rules S: normalized rule -> native id.
SecGroupRules(S) == [ x \in S |-> NativeId(x) ]

\* The for loop of find_existing from the i-th declared rule on: a rule found
\* in current is deleted from it, any other is appended to the creations.
RECURSIVE DiffLoop(_, _, _, _)
DiffLoop(current, D, i, create) ==
  IF i > Len(D) THEN [ create |-> create, current |-> current ]
  ELSE IF D[i] \in DOMAIN current
       THEN DiffLoop([ x \in DOMAIN current \ { D[i] } |-> current[x] ], D,
                     i + 1, create)
       ELSE DiffLoop(current, D, i + 1, Append(create, D[i]))

\* A variant that queues every existing rule for deletion.
find_existing_rules_all(E, D) ==
  [ create_these_rules |-> DiffLoop(E, D, 1, << >>).create,
    delete_these_rules |-> [ i \in 1..Cardinality(DOMAIN E) |->
                               E[SortedSeq(DOMAIN E)[i]] ] ]

\* SecurityGroupRulesetDeployer.find_existing on existing rules E and
\* declared rules D: what it leaves in the two lists (both start empty).
find_existing_rules(E, D) ==
  LET r == DiffLoop(E, D, 1, << >>)
      ks == SortedSeq(DOMAIN r.current)
  IN [ create_these_rules |-> r.create,
       delete_these_rules |-> [ i \in 1..Len(ks) |-> r.current[ks[i]] ] ]

\* SharedMap.merge for the flat host variables the deployers write.
merge(d, h, v) == [ x \in DOMAIN d \cup { h } |-> IF x = h THEN v ELSE d[x] ]

\* SharedMap.append.
append(l, g, h) ==
  [ x \in DOMAIN l \cup { g } |->
      IF x = g THEN (IF g \in DOMAIN l THEN Append(l[g], h) ELSE << h >>)
      ELSE l[x] ]

EmptyMap == [ x \in { } |-> 0 ]

\* ------------------------------------------------------------------ Init
Providers == { "aws", "openstack" }
ModelKinds == { SERVER_SECURITY_GROUPS, BUCKETS, SSH_KEYS,
                SERVER_SECURITY_GROUP_RULES, DATABASES, SERVERS,
                LOAD_BALANCERS }

\* The subsets of S with at most one member: the specs of a definition
\* that name an unregistered provider, or carry a malformed key.
AtMostOne(S) == { { } } \cup { { k } : k \in S }

NoError == [ type |-> "none", stage |-> 0, errors |-> 0 ]

StackInit ==
  /\ action \in { "deploy", "inventory" }
  /\ \E present \in SUBSET ModelKinds :
        config \in [ provider : Providers, present : { present },
                     instance_count : 0..MaxInstances,
                     unregistered : AtMostOne(present),
                     badkey : AtMostOne(present) ]
  /\ SERVERS \notin config.present => config.instance_count = 1
  /\ Declared <= MaxUnits
  /\ run = 1
  /\ opc = "idle"
  /\ stage = 0
  /\ nstarted = 0
  /\ njoined = 0
  /\ errors = 0
  /\ raised = NoError
  /\ have_inventory = FALSE
  /\ deployers = << >>
  /\ unit = << >>
  /\ names = << >>
  /\ dicts = EmptyMap
  /\ lists = EmptyMap
  /\ cloud \in [ servers : { 1..k : k \in 0..MaxExisting }, sg : BOOLEAN,
                 rules : SUBSET Rules, db : BOOLEAN, bucket : BOOLEAN ]
  /\ SERVERS \notin config.present => cloud.servers = { }
  /\ (SERVER_SECURITY_GROUPS \notin config.present
        /\ SERVER_SECURITY_GROUP_RULES \notin config.present) => ~cloud.sg
  /\ (~cloud.sg \/ SERVER_SECURITY_GROUP_RULES \notin config.present)
        => cloud.rules = { }
  /\ DATABASES \notin config.present => ~cloud.db
  /\ BUCKETS \notin config.present => ~cloud.bucket
  /\ cloud0 = cloud
  /\ creates = 0
  /\ faults = 0
  /\ startSeq = << >>
  /\ exitSeq = << >>
  /\ inv1 = << EmptyMap, EmptyMap >>

orch == << opc, stage, nstarted, njoined, errors, raised, have_inventory,
           startSeq >>
env == << action, config, run, cloud0, inv1, deployers >>
shared == << names, dicts, lists >>

\* ----------------------------------------------------------- Stack._run
\* The run starts: Stack.get_deployers constructs the deployers of all
\* stages; an exception there ends the run before any process exists.
Plan ==
  /\ opc = "idle"
  /\ IF PlanRaises
     THEN /\ opc' = "failed"
          /\ raised' = [ type |-> PlanError, stage |-> 0, errors |-> 0 ]
          /\ UNCHANGED << deployers, unit >>
     ELSE /\ opc' = "run"
          /\ raised' = raised
          /\ deployers' = StagesUpTo(NStages)
          /\ unit' = [ u \in 1..Len(StagesUpTo(NStages)) |-> NewUnit ]
  /\ UNCHANGED << stage, nstarted, njoined, errors, have_inventory, startSeq,
                  action, config, run, cloud0, inv1, shared, cloud, creates,
                  faults, exitSeq >>

\* p = multiprocessing.Process(target=d.run, args=(action,)); p.start()
StartChild ==
  /\ opc = "run"
  /\ nstarted < NChildren(stage)
  /\ LET u == Base(stage) + nstarted + 1
     IN /\ unit' = [ unit EXCEPT ![u] =
                       Enter(MyPhases(u), [ @ EXCEPT !.st = "running" ], 0) ]
        /\ startSeq' = Append(startSeq, u)
  /\ nstarted' = nstarted + 1
  /\ UNCHANGED << opc, stage, njoined, errors, raised, have_inventory, env,
                  shared, cloud, creates, faults, exitSeq >>

\* A variant in which join does not wait for the child.
JoinReady_nowait(u) == TRUE

\* child.join() returns once the child process has exited.
JoinReady(u) == Exited(u)

\* A variant in which every child reports exit code 0.
exitcode_zero(u) == 0

\* child.exitcode
exitcode(u) == IF unit[u].st = "exit0" THEN 0 ELSE 1

\* for child in children: child.join(); if child.exitcode != 0: errors += 1
JoinChild ==
  /\ opc = "run"
  /\ nstarted = NChildren(stage)
  /\ njoined < nstarted
  /\ LET u == Base(stage) + njoined + 1
     IN /\ JoinReady(u)
        /\ errors' = IF exitcode(u) # 0 THEN errors + 1 ELSE errors
  /\ njoined' = njoined + 1
  /\ UNCHANGED << opc, stage, nstarted, raised, have_inventory, startSeq, env,
                  shared, unit, cloud, creates, faults, exitSeq >>

\* A variant in which the stage ends once its children are started.
StageJoined_nojoin == nstarted = NChildren(stage)

\* Both loops over the stage's deployers are over: all started, all joined.
StageJoined ==
  /\ nstarted = NChildren(stage)
  /\ njoined = nstarted

\* A variant in which _run goes on whatever the error count.
StageFailed_never == FALSE

\* if errors: raise BangError(msg)
StageFailed == errors > 0

\* The stage's join loop is over: raise BangError if errors, else go on to
\* the next stage; after the last stage deploy()/gather_inventory() set
\* have_inventory.
EndStage ==
  /\ opc = "run"
  /\ StageJoined
  /\ IF StageFailed
     THEN /\ opc' = "failed"
          /\ raised' = [ type |-> "BangError", stage |-> stage,
                         errors |-> errors ]
          /\ UNCHANGED << stage, nstarted, njoined, errors, have_inventory >>
     ELSE IF stage + 1 < NStages
     THEN /\ stage' = stage + 1
          /\ nstarted' = 0
          /\ njoined' = 0
          /\ errors' = 0
          /\ UNCHANGED << opc, raised, have_inventory >>
     ELSE /\ opc' = "done"
          /\ have_inventory' = TRUE
          /\ UNCHANGED << stage, nstarted, njoined, errors, raised >>
  /\ UNCHANGED << startSeq, env, shared, unit, cloud, creates, faults,
                  exitSeq >>

\* -------------------------------------------------------- deployer steps
\* The action of the current phase returned with fields r.
Returns(u, r) == unit' = [ unit EXCEPT ![u] = Advance(u, r) ]

\* An exception leaves Deployer.run: the process exits with code 1.
Raises(u) ==
  /\ unit' = [ unit EXCEPT ![u].st = "exit1" ]
  /\ exitSeq' = Append(exitSeq, u)

\* Deployer.run returns after the last phase: the process exits with code 0.
Finish(u) ==
  /\ Running(u)
  /\ unit[u].pi = 0
  /\ unit' = [ unit EXCEPT ![u].st = "exit0" ]
  /\ exitSeq' = Append(exitSeq, u)
  /\ UNCHANGED << orch, env, shared, cloud, creates, faults >>

\* The phases whose action calls the provider.
CallsBackend(u) ==
  ~(Act(u) = "add_to_inventory")

\* The backend rejects the call the current phase makes: the exception
\* propagates out of Deployer.run.
BackendError(u) ==
  /\ Running(u)
  /\ unit[u].pi # 0
  /\ CallsBackend(u)
  /\ unit[u].sub = "call"
  /\ faults < MaxFaults
  /\ faults' = faults + 1
  /\ Raises(u)
  /\ UNCHANGED << orch, env, shared, cloud, creates >>

\* A variant in which a poll that found nothing is taken for a result.
PollTimedOut_returns(u) ==
  /\ Returns(u, [ unit[u] EXCEPT !.err = "TimeoutError" ])
  /\ exitSeq' = exitSeq

\* poll_with_timeout returned None: `if not instance: raise TimeoutError`
\* leaves the provider method, the phase action and Deployer.run.
PollTimedOut(u) ==
  /\ unit' = [ unit EXCEPT ![u] =
                 [ @ EXCEPT !.st = "exit1", !.err = "TimeoutError" ] ]
  /\ exitSeq' = Append(exitSeq, u)

\* SharedNamespace.add_if_unique, as one atomic step under its lock.
add_if_unique(ns, name) == name \notin Range(ns)

\* Stack.add_host(host, groups, hostvars)
add_host(host, group, hvars) ==
  /\ dicts' = merge(dicts, host, hvars)
  /\ lists' = append(lists, group, host)

\* ---- ServerDeployer
\* instances = self.consul.find_servers(self.tags); maxnames = len(instances)
Server_find_servers(u) ==
  /\ At(u, SERVERS, "find_existing")
  /\ unit[u].sub = "call"
  /\ unit' = [ unit EXCEPT ![u] =
                 [ @ EXCEPT !.instances = SortedSeq(cloud.servers),
                            !.maxnames = Cardinality(cloud.servers),
                            !.sub = "loop" ] ]
  /\ UNCHANGED << orch, env, shared, cloud, creates, faults, exitSeq >>

\* One pass of the while loop up to the claim: pop the first candidate and
\* try to claim its id; an empty list ends find_existing.
Server_claim(u) ==
  /\ At(u, SERVERS, "find_existing")
  /\ unit[u].sub = "loop"
  /\ IF unit[u].instances = << >>
     THEN /\ Returns(u, [ unit[u] EXCEPT !.sub = "call" ])
          /\ names' = names
     ELSE LET i == Head(unit[u].instances)
              r == [ unit[u] EXCEPT !.instances = Tail(@),
                                    !.tried = Append(@, i) ]
          IN IF add_if_unique(names, i)
             THEN /\ names' = Append(names, i)
                  /\ Returns(u, [ r EXCEPT !.attrs = i, !.claimed = i,
                                            !.sub = "call" ])
             ELSE /\ names' = names
                  /\ unit' = [ unit EXCEPT ![u] =
                                 [ r EXCEPT !.cur = i, !.sub = "chk" ] ]
  /\ UNCHANGED << orch, env, dicts, lists, cloud, creates, faults, exitSeq >>

\* A variant without the break on a full namespace.
NamespaceFull_never(u) == FALSE

\* if len(self.namespace.names) >= maxnames: break
NamespaceFull(u) == Len(names) >= unit[u].maxnames

\* The rest of the pass after a failed claim: break, or put the candidate
\* back at the end of the list.
Server_recheck(u) ==
  /\ At(u, SERVERS, "find_existing")
  /\ unit[u].sub = "chk"
  /\ IF NamespaceFull(u)
     THEN Returns(u, [ unit[u] EXCEPT !.sub = "call" ])
     ELSE unit' = [ unit EXCEPT ![u] =
                      [ @ EXCEPT !.instances = Append(@, unit[u].cur),
                                 !.sub = "loop" ] ]
  /\ UNCHANGED << orch, env, shared, cloud, creates, faults, exitSeq >>

\* self.server_attrs = self.consul.find_running(self.server_attrs, ...)
Server_wait_for_running(u) ==
  /\ At(u, SERVERS, "wait_for_running")
  /\ Returns(u, unit[u])
  /\ UNCHANGED << orch, env, shared, cloud, creates, faults, exitSeq >>

\* self.server_attrs = self.consul.create_server(...)
Server_create(u) ==
  /\ At(u, SERVERS, "create")
  /\ LET id == Cardinality(cloud.servers) + 1
     IN /\ cloud' = [ cloud EXCEPT !.servers = @ \cup { id } ]
        /\ Returns(u, [ unit[u] EXCEPT !.attrs = id ])
  /\ creates' = creates + 1
  /\ UNCHANGED << orch, env, shared, faults, exitSeq >>

\* consul.create_server or consul.find_running polls for the running
\* server until the launch timeout has passed and finds none; create_server
\* has launched the instance before it polls.
Server_poll_timeout(u) ==
  /\ Running(u)
  /\ unit[u].pi # 0
  /\ KindOf(u) = SERVERS
  /\ Act(u) \in { "create", "wait_for_running" }
  /\ faults < MaxFaults
  /\ faults' = faults + 1
  /\ IF Act(u) = "create"
     THEN /\ cloud' = [ cloud EXCEPT !.servers =
                          @ \cup { Cardinality(cloud.servers) + 1 } ]
          /\ creates' = creates + 1
     ELSE UNCHANGED << cloud, creates >>
  /\ PollTimedOut(u)
  /\ UNCHANGED << orch, env, shared >>

\* if not self.server_attrs: return; else add_host for the public address
Server_add_to_inventory(u) ==
  /\ At(u, SERVERS, "add_to_inventory")
  /\ IF unit[u].attrs = 0
     THEN UNCHANGED << dicts, lists >>
     ELSE add_host(unit[u].attrs, "web", "web")
  /\ Returns(u, unit[u])
  /\ UNCHANGED << orch, env, names, cloud, creates, faults, exitSeq >>

\* ---- SecurityGroupDeployer
SecurityGroup_find_existing(u) ==
  /\ At(u, SERVER_SECURITY_GROUPS, "find_existing")
  /\ Returns(u, [ unit[u] EXCEPT !.attrs = IF cloud.sg THEN 1 ELSE 0 ])
  /\ UNCHANGED << orch, env, shared, cloud, creates, faults, exitSeq >>

SecurityGroup_create(u) ==
  /\ At(u, SERVER_SECURITY_GROUPS, "create")
  /\ cloud' = [ cloud EXCEPT !.sg = TRUE ]
  /\ creates' = creates + 1
  /\ Returns(u, unit[u])
  /\ UNCHANGED << orch, env, shared, faults, exitSeq >>

\* ---- SecurityGroupRulesetDeployer
\* sg = self.consul.find_secgroup(self.name); current = sg.rules raises
\* AttributeError when the group does not exist.
Ruleset_find_existing(u) ==
  /\ At(u, SERVER_SECURITY_GROUP_RULES, "find_existing")
  /\ IF ~cloud.sg
     THEN Raises(u)
     ELSE /\ LET d == find_existing_rules(SecGroupRules(cloud.rules),
                                          DeclaredRules)
             IN Returns(u, [ unit[u] EXCEPT
                  !.create_these_rules = @ \o d.create_these_rules,
                  !.delete_these_rules = @ \o d.delete_these_rules ])
          /\ exitSeq' = exitSeq
  /\ UNCHANGED << orch, env, shared, cloud, creates, faults >>

\* A variant that revokes before it authorizes.
RuleCalls_deletes_first(r) ==
  [ i \in 1..Len(r.delete_these_rules) |->
      [ op |-> "delete", arg |-> r.delete_these_rules[i] ] ] \o
  [ i \in 1..Len(r.create_these_rules) |->
      [ op |-> "create", arg |-> r.create_these_rules[i] ] ]

\* The provider calls of apply_rule_changes in the order of its two loops.
RuleCalls(r) ==
  [ i \in 1..Len(r.create_these_rules) |->
      [ op |-> "create", arg |-> r.create_these_rules[i] ] ] \o
  [ i \in 1..Len(r.delete_these_rules) |->
      [ op |-> "delete", arg |-> r.delete_these_rules[i] ] ]

\* One create_secgroup_rule or delete_secgroup_rule call of
\* apply_rule_changes; the method returns after the last one.
Ruleset_apply_rule_changes(u) ==
  /\ At(u, SERVER_SECURITY_GROUP_RULES, "apply_rule_changes")
  /\ LET todo == RuleCalls(unit[u])
         n == Len(unit[u].calls)
     IN IF n >= Len(todo)
        THEN /\ Returns(u, unit[u])
             /\ UNCHANGED << cloud, creates >>
        ELSE LET c == todo[n + 1]
                 r == [ unit[u] EXCEPT !.calls = Append(@, c) ]
             IN /\ cloud' = [ cloud EXCEPT !.rules =
                                IF c.op = "create" THEN @ \cup { c.arg }
                                ELSE { x \in @ : NativeId(x) # c.arg } ]
                /\ creates' = IF c.op = "create" THEN creates + 1 ELSE creates
                /\ IF n + 1 = Len(todo)
                   THEN Returns(u, r)
                   ELSE unit' = [ unit EXCEPT ![u] = r ]
  /\ UNCHANGED << orch, env, shared, faults, exitSeq >>

\* ---- BucketDeployer
Bucket_create(u) ==
  /\ At(u, BUCKETS, "create")
  /\ cloud' = [ cloud EXCEPT !.bucket = TRUE ]
  /\ creates' = creates + 1
  /\ Returns(u, unit[u])
  /\ UNCHANGED << orch, env, shared, faults, exitSeq >>

\* ---- DatabaseDeployer
Database_find_existing(u) ==
  /\ At(u, DATABASES, "find_existing")
  /\ Returns(u, [ unit[u] EXCEPT !.attrs = IF cloud.db THEN 1 ELSE 0 ])
  /\ UNCHANGED << orch, env, shared, cloud, creates, faults, exitSeq >>

Database_create(u) ==
  /\ At(u, DATABASES, "create")
  /\ cloud' = [ cloud EXCEPT !.db = TRUE ]
  /\ creates' = creates + 1
  /\ Returns(u, [ unit[u] EXCEPT !.attrs = 1 ])
  /\ UNCHANGED << orch, env, shared, faults, exitSeq >>

\* host = self.db_attrs.pop(HOST) raises AttributeError when db_attrs is None.
Database_add_to_inventory(u) ==
  /\ At(u, DATABASES, "add_to_inventory")
  /\ IF unit[u].attrs = 0
     THEN /\ Raises(u)
          /\ UNCHANGED << dicts, lists >>
     ELSE /\ add_host(DbHost, "dbs", "db")
          /\ Returns(u, unit[u])
          /\ exitSeq' = exitSeq
  /\ UNCHANGED << orch, env, names, cloud, creates, faults >>

\* ---- a second deploy of the same definition on the resulting backend,
\* with a new Stack object (empty namespaces and inventory).
SecondDeploy ==
  /\ opc = "done"
  /\ run = 1
  /\ action = "deploy"
  /\ run' = 2
  /\ inv1' = << dicts, lists >>
  /\ opc' = "idle"
  /\ stage' = 0
  /\ nstarted' = 0
  /\ njoined' = 0
  /\ errors' = 0
  /\ have_inventory' = FALSE
  /\ deployers' = << >>
  /\ unit' = << >>
  /\ names' = << >>
  /\ dicts' = EmptyMap
  /\ lists' = EmptyMap
  /\ cloud0' = cloud
  /\ creates' = 0
  /\ startSeq' = << >>
  /\ exitSeq' = << >>
  /\ UNCHANGED << action, config, raised, cloud, faults >>

UnitStep(u) ==
  \/ Finish(u)
  \/ BackendError(u)
  \/ Server_find_servers(u)
  \/ Server_claim(u)
  \/ Server_recheck(u)
  \/ Server_wait_for_running(u)
  \/ Server_create(u)
  \/ Server_poll_timeout(u)
  \/ Server_add_to_inventory(u)
  \/ SecurityGroup_find_existing(u)
  \/ SecurityGroup_create(u)
  \/ Ruleset_find_existing(u)
  \/ Ruleset_apply_rule_changes(u)
  \/ Bucket_create(u)
  \/ Database_find_existing(u)
  \/ Database_create(u)
  \/ Database_add_to_inventory(u)

nsvars == << nslock, nsnames, call >>
fnvars == << rd, dm, sm, pw >>
fnvars2 == << gp, rg, cm, fs >>
fnvars3 == << lb, cf, ops, fd >>

\* A Stack on which nothing has run.
StackIdle ==
  /\ action = "deploy"
  /\ config = [ provider |-> "aws", present |-> { }, instance_count |-> 1,
                unregistered |-> { }, badkey |-> { } ]
  /\ run = 1
  /\ opc = "idle"
  /\ stage = 0
  /\ nstarted = 0
  /\ njoined = 0
  /\ errors = 0
  /\ raised = NoError
  /\ have_inventory = FALSE
  /\ deployers = << >>
  /\ unit = << >>
  /\ names = << >>
  /\ dicts = EmptyMap
  /\ lists = EmptyMap
  /\ cloud = [ servers |-> { }, sg |-> FALSE, rules |-> { }, db |-> FALSE,
               bucket |-> FALSE ]
  /\ cloud0 = cloud
  /\ creates = 0
  /\ faults = 0
  /\ startSeq = << >>
  /\ exitSeq = << >>
  /\ inv1 = << EmptyMap, EmptyMap >>

\* No SharedNamespace caller.
NSIdle ==
  /\ nslock = 0
  /\ nsnames = << >>
  /\ call = << >>

\* No separate call in progress.
FnIdle ==
  /\ rd = [ pc |-> "idle" ]
  /\ dm = [ pc |-> "idle" ]
  /\ sm = [ pc |-> "idle" ]
  /\ pw = [ pc |-> "idle" ]

\* No provider lookup, regioned process, cloud-manager deployer or lookup by
\* name in progress.
Fn2Idle ==
  /\ gp = [ pc |-> "idle" ]
  /\ rg = [ pc |-> "idle" ]
  /\ cm = [ pc |-> "idle" ]
  /\ fs = [ pc |-> "idle" ]

\* No node matching, configuration load, Stack operation or find_def in
\* progress.
Fn3Idle ==
  /\ lb = [ pc |-> "idle" ]
  /\ cf = [ pc |-> "idle" ]
  /\ ops = [ pc |-> "idle" ]
  /\ fd = [ pc |-> "idle" ]

stackvars == << action, config, run, opc, stage, nstarted, njoined, errors,
               raised, have_inventory, deployers, unit, names, dicts, lists,
               cloud, cloud0, creates, faults, startSeq, exitSeq, inv1 >>

Init ==
  /\ StackInit
  /\ NSIdle
  /\ FnIdle
  /\ Fn2Idle
  /\ Fn3Idle

Next ==
  \/ Plan /\ UNCHANGED << nsvars, fnvars, fnvars2, fnvars3 >>
  \/ StartChild /\ UNCHANGED << nsvars, fnvars, fnvars2, fnvars3 >>
  \/ JoinChild /\ UNCHANGED << nsvars, fnvars, fnvars2, fnvars3 >>
  \/ EndStage /\ UNCHANGED << nsvars, fnvars, fnvars2, fnvars3 >>
  \/ SecondDeploy /\ UNCHANGED << nsvars, fnvars, fnvars2, fnvars3 >>
  \/ \E u \in Units : UnitStep(u) /\ UNCHANGED << nsvars, fnvars, fnvars2, fnvars3 >>

Spec == Init /\ [][Next]_vars

\* ------------------------------------------- SharedNamespace under load
\* N processes call add_if_unique on one SharedNamespace at the same time.
\* Each statement of the method is a step of its own.
Callers == DOMAIN call

\* A variant without mutual exclusion.
LockFree_always == TRUE

\* with self.lock: blocks until the lock is free.
LockFree == nslock = 0

NS_acquire(c) ==
  /\ call[c].pc = "start"
  /\ LockFree
  /\ nslock' = c
  /\ call' = [ call EXCEPT ![c].pc = "check" ]
  /\ UNCHANGED nsnames

\* if name not in self.names:
NS_check(c) ==
  /\ call[c].pc = "check"
  /\ call' = [ call EXCEPT ![c].pc =
                 IF add_if_unique(nsnames, call[c].name)
                 THEN "append" ELSE "leave" ]
  /\ UNCHANGED << nslock, nsnames >>

\* self.names.append(name)
NS_append(c) ==
  /\ call[c].pc = "append"
  /\ nsnames' = Append(nsnames, call[c].name)
  /\ call' = [ call EXCEPT ![c].pc = "return_true" ]
  /\ UNCHANGED nslock

\* return True / return False: leaving the with block releases the lock.
NS_return(c) ==
  /\ call[c].pc \in { "return_true", "leave" }
  /\ nslock' = IF nslock = c THEN 0 ELSE nslock
  /\ call' = [ call EXCEPT ![c].pc = "done",
                           ![c].result = (call[c].pc = "return_true") ]
  /\ UNCHANGED nsnames

InitNS ==
  /\ StackIdle
  /\ Fn2Idle
  /\ Fn3Idle
  /\ FnIdle
  /\ nslock = 0
  /\ nsnames = << >>
  /\ \E n \in 1..MaxCallers :
       call \in [ 1..n -> [ name : 1..MaxIds, pc : { "start" },
                            result : { FALSE } ] ]

NextNS ==
  \E c \in Callers :
     /\ \/ NS_acquire(c)
        \/ NS_check(c)
        \/ NS_append(c)
        \/ NS_return(c)
     /\ UNCHANGED << fnvars3, fnvars2, stackvars, fnvars >>

SpecNS == InitNS /\ [][NextNS]_vars

\* ------------------------------------------------ rule diff on its own
\* One find_existing call of a rule-set deployer on a group that exists,
\* for every set of existing rules and every list of declared rules.
RuleIds == 1..MaxRules
DeclaredLists == UNION { [ 1..n -> RuleIds ] : n \in 0..MaxRules }
DuplicateFree(q) == \A i \in 1..Len(q) : \A j \in 1..Len(q) : q[i] = q[j] => i = j

RD_find_existing ==
  /\ rd.pc = "call"
  /\ LET d == find_existing_rules(rd.E, rd.D)
     IN rd' = [ rd EXCEPT !.pc = "done",
                          !.create_these_rules = d.create_these_rules,
                          !.delete_these_rules = d.delete_these_rules ]
  /\ UNCHANGED << fnvars3, fnvars2, stackvars, nsvars, dm, sm, pw >>

InitRD ==
  /\ StackIdle
  /\ Fn2Idle
  /\ Fn3Idle
  /\ NSIdle
  /\ dm = [ pc |-> "idle" ]
  /\ sm = [ pc |-> "idle" ]
  /\ pw = [ pc |-> "idle" ]
  /\ \E S \in SUBSET RuleIds : \E D \in DeclaredLists :
       rd = [ pc |-> "call", E |-> SecGroupRules(S), D |-> D,
              create_these_rules |-> << >>, delete_these_rules |-> << >> ]

NextRD == RD_find_existing

SpecRD == InitRD /\ [][NextRD]_vars

\* ------------------------------------------------------ deep_merge_dicts
\* A value is a mapping from keys to values, or anything else (a scalar or a
\* list), which deep_merge_dicts treats alike.
Leaf(x) == [ kind |-> "leaf", val |-> x, items |-> EmptyMap ]
Mapping(m) == [ kind |-> "map", val |-> 0, items |-> m ]
Keys == 1..MaxKeys
MapsOver(V) == UNION { [ S -> V ] : S \in SUBSET Keys }
\* Mappings nested two deep whose other values are taken from L.
Nested(L) == MapsOver(L \cup { Mapping(m) : m \in MapsOver(L) })
\* The other values of base are 1 and those of incoming are 2, so that a
\* value of the result tells which side it came from.
BaseMaps == Nested({ Leaf(1) })
IncomingMaps == Nested({ Leaf(2) })

\* A variant that never descends: dict.update.
BothMappings_never(base, ki, vi) == FALSE

\* ki in base and isinstance(vi, MutableMapping)
\* and isinstance(base[ki], MutableMapping)
BothMappings(base, ki, vi) ==
  /\ ki \in DOMAIN base
  /\ vi.kind = "map"
  /\ base[ki].kind = "map"

\* for ki, vi in incoming.iteritems(): the loop over the keys ks still to
\* visit, returning what base has become.
RECURSIVE deep_merge_dicts(_, _)
RECURSIVE MergeItems(_, _, _)
MergeItems(base, incoming, ks) ==
  IF ks = { } THEN base
  ELSE LET ki == CHOOSE x \in ks : \A y \in ks : x <= y
           vi == incoming[ki]
       IN MergeItems(
            IF BothMappings(base, ki, vi)
            THEN [ base EXCEPT ![ki] =
                     Mapping(deep_merge_dicts(base[ki].items, vi.items)) ]
            ELSE [ x \in DOMAIN base \cup { ki } |->
                     IF x = ki THEN vi ELSE base[x] ],
            incoming, ks \ { ki })

deep_merge_dicts(base, incoming) == MergeItems(base, incoming, DOMAIN incoming)

DM_call ==
  /\ dm.pc = "call"
  /\ dm' = [ dm EXCEPT !.pc = "done",
                        !.after = deep_merge_dicts(dm.base, dm.incoming) ]
  /\ UNCHANGED << fnvars3, fnvars2, stackvars, nsvars, rd, sm, pw >>

InitDM ==
  /\ StackIdle
  /\ Fn2Idle
  /\ Fn3Idle
  /\ NSIdle
  /\ rd = [ pc |-> "idle" ]
  /\ sm = [ pc |-> "idle" ]
  /\ pw = [ pc |-> "idle" ]
  /\ \E b \in BaseMaps : \E i \in IncomingMaps :
       dm = [ pc |-> "call", base |-> b, incoming |-> i, after |-> EmptyMap ]

NextDM == DM_call

SpecDM == InitDM /\ [][NextDM]_vars

\* ------------------------------------------- SharedMap under add_host
\* Worker processes call Stack.add_host on one Stack at the same time. Each
\* SharedMap method reads the entry under the lock and writes it back.
Hosts == { 1, 2 }
Groups == { 1, 2 }
GROUP_NAMES == 0
INV_NAME == -1
INV_NAME_SHORT == -2

\* group_names arguments: lists of distinct group names.
GroupLists == UNION { { q \in [ 1..n -> Groups ] : DuplicateFree(q) } :
                       n \in 0..Cardinality(Groups) }

\* host_vars arguments.
HostVars ==
  { EmptyMap,
    [ k \in { 1 } |-> Leaf(1) ],
    [ k \in { 2 } |-> Leaf(2) ],
    [ k \in { 1 } |-> Mapping([ j \in { 1 } |-> Leaf(1) ]) ],
    [ k \in { 1 } |-> Mapping([ j \in { 2 } |-> Leaf(2) ]) ] }

\* gnames.sort()
sort(q) == SortedSeq(Range(q))

\* The list of group names as a value stored under hostvars: not a mapping.
ListValue(q) == Leaf(10 + (IF 1 \in Range(q) THEN 1 ELSE 0)
                        + (IF 2 \in Range(q) THEN 2 ELSE 0)
                        + (IF 3 \in Range(q) THEN 4 ELSE 0))

\* hvars after add_host has put ansible's magic variables in.
MagicVars(host, gnames, hvars) ==
  [ k \in DOMAIN hvars \cup { GROUP_NAMES, INV_NAME, INV_NAME_SHORT } |->
      IF k = GROUP_NAMES THEN ListValue(gnames)
      ELSE IF k \in { INV_NAME, INV_NAME_SHORT } THEN Leaf(host)
      ELSE hvars[k] ]

Workers == DOMAIN sm.procs

\* A variant without mutual exclusion.
SMLockFree_always == TRUE

\* with self.lock: blocks until the lock is free.
SMLockFree == sm.lock = 0

\* A variant that keeps a group list free of duplicates.
ListAppend_unique(l, value) ==
  IF value \in Range(l) THEN l ELSE Append(l, value)

\* if l: l.append(value) else: l = [value]
ListAppend(l, value) == IF l # << >> THEN Append(l, value) ELSE << value >>

\* self.groups_and_vars.merge(host, hvars), up to d = self.dicts.get(host)
SM_merge_get(w) ==
  /\ sm.procs[w].pc = "merge"
  /\ SMLockFree
  /\ sm' = [ sm EXCEPT
               !.lock = w,
               !.procs[w].pc = "merge_set",
               !.procs[w].local =
                  IF sm.procs[w].host \in DOMAIN sm.dicts
                  THEN sm.dicts[sm.procs[w].host] ELSE EmptyMap ]

\* A variant of merge that does not store the entry.
SM_merge_set_nostore(w) ==
  /\ sm.procs[w].pc = "merge_set"
  /\ LET me == sm.procs[w]
     IN sm' = [ sm EXCEPT
                  !.lock = IF sm.lock = w THEN 0 ELSE sm.lock,
                  !.order = Append(@, [ op |-> "merge", w |-> w, gi |-> 0 ]),
                  !.procs[w].pc = IF me.groups = << >> THEN "done"
                                  ELSE "append",
                  !.procs[w].gi = 1 ]

\* if d: deep_merge_dicts(d, values) else: d = copy.deepcopy(values);
\* self.dicts[dict_name] = d; the lock is released.
SM_merge_set(w) ==
  /\ sm.procs[w].pc = "merge_set"
  /\ LET me == sm.procs[w]
         values == MagicVars(me.host, sort(me.groups), me.hvars)
         d == IF me.local # EmptyMap
              THEN deep_merge_dicts(me.local, values) ELSE values
     IN sm' = [ sm EXCEPT
                  !.lock = IF sm.lock = w THEN 0 ELSE sm.lock,
                  !.dicts = [ h \in DOMAIN sm.dicts \cup { me.host } |->
                                IF h = me.host THEN d ELSE sm.dicts[h] ],
                  !.order = Append(@, [ op |-> "merge", w |-> w, gi |-> 0 ]),
                  !.procs[w].pc = IF me.groups = << >> THEN "done"
                                  ELSE "append",
                  !.procs[w].gi = 1 ]

\* self.groups_and_vars.append(gname, host), up to l = self.lists.get(gname)
SM_append_get(w) ==
  /\ sm.procs[w].pc = "append"
  /\ SMLockFree
  /\ LET g == sort(sm.procs[w].groups)[sm.procs[w].gi]
     IN sm' = [ sm EXCEPT
                  !.lock = w,
                  !.procs[w].pc = "append_set",
                  !.procs[w].locall =
                     IF g \in DOMAIN sm.lists THEN sm.lists[g] ELSE << >> ]

\* self.lists[list_name] = l; the lock is released; next group, if any.
SM_append_set(w) ==
  /\ sm.procs[w].pc = "append_set"
  /\ LET me == sm.procs[w]
         g == sort(me.groups)[me.gi]
         l == ListAppend(me.locall, me.host)
     IN sm' = [ sm EXCEPT
                  !.lock = IF sm.lock = w THEN 0 ELSE sm.lock,
                  !.lists = [ x \in DOMAIN sm.lists \cup { g } |->
                                IF x = g THEN l ELSE sm.lists[x] ],
                  !.order = Append(@, [ op |-> "append", w |-> w, gi |-> me.gi ]),
                  !.procs[w].pc = IF me.gi = Len(me.groups) THEN "done"
                                  ELSE "append",
                  !.procs[w].gi = me.gi + 1 ]

InitSM ==
  /\ StackIdle
  /\ Fn2Idle
  /\ Fn3Idle
  /\ NSIdle
  /\ rd = [ pc |-> "idle" ]
  /\ dm = [ pc |-> "idle" ]
  /\ pw = [ pc |-> "idle" ]
  /\ \E n \in 1..MaxWorkers :
       \E ps \in [ 1..n -> [ host : Hosts, groups : GroupLists,
                             hvars : HostVars, pc : { "merge" }, gi : { 0 },
                             local : { EmptyMap }, locall : { << >> } ] ] :
         sm = [ pc |-> "run", lock |-> 0, dicts |-> EmptyMap,
                lists |-> EmptyMap, order |-> << >>, procs |-> ps ]

NextSM ==
  \E w \in Workers :
     /\ \/ SM_merge_get(w)
        \/ SM_merge_set(w)
        \/ SM_append_get(w)
        \/ SM_append_set(w)
     /\ UNCHANGED << fnvars3, fnvars2, stackvars, nsvars, rd, dm, pw >>

SpecSM == InitSM /\ [][NextSM]_vars

\* ---------------------------------------------------- poll_with_timeout
\* One call poll_with_timeout(timeout_s, break_func, wake_every_s). What
\* break_func returns is up to the provider: None or a value, which may be
\* falsy.
None == -1
BreakFuncResults == { None, 0, 1 }

\* A variant that polls on while the result is falsy.
PWContinue_falsy(res, time_slept, timeout_s) ==
  res \in { None, 0 } /\ time_slept < timeout_s

\* A variant that still sleeps when the timeout is just reached.
PWContinue_le(res, time_slept, timeout_s) ==
  res = None /\ time_slept <= timeout_s

\* while res is None and time_slept < timeout_s:
PWContinue(res, time_slept, timeout_s) ==
  res = None /\ time_slept < timeout_s

\* A variant that counts every sleep twice.
TimeSlept_twice(time_slept, wake_every_s) == time_slept + 2 * wake_every_s

\* time_slept += wake_every_s
TimeSlept(time_slept, wake_every_s) == time_slept + wake_every_s

\* res = break_func(), before the loop and at the end of its body.
PW_break_func ==
  /\ pw.pc = "break_func"
  /\ \E r \in BreakFuncResults :
       pw' = [ pw EXCEPT
                 !.res = r,
                 !.pc = "while",
                 !.log = Append(@, [ ev |-> "break_func", at |-> pw.time_slept,
                                     res |-> r ]) ]
  /\ UNCHANGED << fnvars3, fnvars2, stackvars, nsvars, rd, dm, sm >>

\* The loop test holds: time.sleep(wake_every_s); time_slept += wake_every_s
PW_sleep ==
  /\ pw.pc = "while"
  /\ PWContinue(pw.res, pw.time_slept, pw.timeout_s)
  /\ pw' = [ pw EXCEPT
               !.time_slept = TimeSlept(pw.time_slept, pw.wake_every_s),
               !.pc = "break_func",
               !.log = Append(@, [ ev |-> "sleep", at |-> pw.time_slept,
                                   res |-> None ]) ]
  /\ UNCHANGED << fnvars3, fnvars2, stackvars, nsvars, rd, dm, sm >>

\* The loop test fails: return res
PW_return ==
  /\ pw.pc = "while"
  /\ ~PWContinue(pw.res, pw.time_slept, pw.timeout_s)
  /\ pw' = [ pw EXCEPT !.pc = "done", !.ret = pw.res ]
  /\ UNCHANGED << fnvars3, fnvars2, stackvars, nsvars, rd, dm, sm >>

InitPW ==
  /\ StackIdle
  /\ Fn2Idle
  /\ Fn3Idle
  /\ NSIdle
  /\ rd = [ pc |-> "idle" ]
  /\ dm = [ pc |-> "idle" ]
  /\ sm = [ pc |-> "idle" ]
  /\ \E t \in 0..MaxTimeout : \E w \in 1..MaxWake :
       pw = [ pc |-> "break_func", timeout_s |-> t, wake_every_s |-> w,
              time_slept |-> 0, res |-> None, ret |-> None, log |-> << >> ]

NextPW ==
  \/ PW_break_func
  \/ PW_sleep
  \/ PW_return

SpecPW == InitPW /\ [][NextPW]_vars

\* The call is not suspended for ever: sleep and break_func return.
SpecPWFair == SpecPW /\ WF_vars(NextPW)

\* ------------------------------------------------ provider dispatch cache
\* Provider names a spec may give: the keys of PROVIDER_MAP and one name it
\* does not have.
GPNames == Providers \cup { "hpcloud" }
GPKinds == { SERVERS, SSH_KEYS }

\* A variant that never finds the name in the cache.
Memoized_never(name) == FALSE

\* p = _PROVIDERS.get(name); if not p: ... else the cached object is returned
Memoized(name) == gp.providers[name] # 0

\* get_provider(name, creds): the cached object, or a new object of the
\* class PROVIDER_MAP has for the name, cached; Exception (res -1) when it
\* has none.
GP_get_provider ==
  /\ gp.pc = "run"
  /\ Len(gp.calls) < MaxCalls
  /\ \E name \in GPNames : \E creds \in 1..MaxCreds :
       IF Memoized(name)
       THEN gp' = [ gp EXCEPT !.calls = Append(@,
                      [ fn |-> "get_provider", name |-> name, creds |-> creds,
                        obj |-> 0, kind |-> "", res |-> gp.providers[name] ]) ]
       ELSE IF name \notin Providers
       THEN gp' = [ gp EXCEPT !.calls = Append(@,
                      [ fn |-> "get_provider", name |-> name, creds |-> creds,
                        obj |-> 0, kind |-> "", res |-> -1 ]) ]
       ELSE gp' = [ gp EXCEPT
                      !.objects = Append(@, [ class |-> name, creds |-> creds ]),
                      !.providers[name] = Len(gp.objects) + 1,
                      !.calls = Append(@,
                        [ fn |-> "get_provider", name |-> name, creds |-> creds,
                          obj |-> 0, kind |-> "", res |-> Len(gp.objects) + 1 ]) ]
  /\ UNCHANGED << fnvars3, stackvars, nsvars, fnvars, rg, cm, fs >>

\* Provider.get_consul(resource_type) on a provider object: a new object of
\* the class CONSUL_MAP has for the type, None (res 0) when it has none.
GP_get_consul ==
  /\ gp.pc = "run"
  /\ Len(gp.calls) < MaxCalls
  /\ \E p \in 1..Len(gp.objects) : \E kind \in GPKinds :
       IF kind \in CONSUL_MAP[gp.objects[p].class]
       THEN gp' = [ gp EXCEPT
                      !.consuls = Append(@, [ provider |-> p, kind |-> kind ]),
                      !.calls = Append(@,
                        [ fn |-> "get_consul", name |-> "", creds |-> 0,
                          obj |-> p, kind |-> kind,
                          res |-> Len(gp.consuls) + 1 ]) ]
       ELSE gp' = [ gp EXCEPT !.calls = Append(@,
                      [ fn |-> "get_consul", name |-> "", creds |-> 0,
                        obj |-> p, kind |-> kind, res |-> 0 ]) ]
  /\ UNCHANGED << fnvars3, stackvars, nsvars, fnvars, rg, cm, fs >>

\* A process that has imported bang.providers: the cache is empty.
InitGP ==
  /\ StackIdle
  /\ NSIdle
  /\ FnIdle
  /\ Fn3Idle
  /\ rg = [ pc |-> "idle" ]
  /\ cm = [ pc |-> "idle" ]
  /\ fs = [ pc |-> "idle" ]
  /\ gp = [ pc |-> "run", providers |-> [ n \in GPNames |-> 0 ],
            objects |-> << >>, consuls |-> << >>, calls |-> << >> ]

NextGP ==
  \/ GP_get_provider
  \/ GP_get_consul

SpecGP == InitGP /\ [][NextGP]_vars

\* ------------------------------------------- regioned deployers at work
Regions == { 1, 2 }
Regioned == 1..MaxRegioned

\* A variant in which the deployers run in the planner's process, on its
\* objects.
ClientOf_shared(w) == 0

\* multiprocessing.Process(target=d.run): the child process works on its own
\* copy of the deployer, its consul and the provider's client; 0 is the
\* planner's process.
ClientOf(w) == w

\* p.start(): the child starts with a copy of the parent's objects.
RG_start(w) ==
  /\ rg.st[w] = "new"
  /\ rg' = [ rg EXCEPT !.st[w] = "ready", !.client[w] = rg.client[0] ]
  /\ UNCHANGED << fnvars3, stackvars, nsvars, fnvars, gp, cm, fs >>

\* RegionedDeployer.consul: self._consul.set_region(self.region_name)
\* points the client at the region's endpoint before the consul is handed
\* to the phase action.
RG_set_region(w) ==
  /\ rg.st[w] = "ready"
  /\ rg.ncalls[w] < MaxUnitCalls
  /\ rg' = [ rg EXCEPT
               !.st[w] = "set",
               !.client[ClientOf(w)] = rg.region_name[w],
               !.since = [ v \in Regioned |->
                             IF v = w THEN { }
                             ELSE IF rg.st[v] = "set" THEN @[v] \cup { w }
                             ELSE @[v] ] ]
  /\ UNCHANGED << fnvars3, stackvars, nsvars, fnvars, gp, cm, fs >>

\* The phase action calls a method of the consul: the request goes to the
\* endpoint the client points at.
RG_call(w) ==
  /\ rg.st[w] = "set"
  /\ rg' = [ rg EXCEPT
               !.st[w] = "ready",
               !.ncalls[w] = @ + 1,
               !.calls[w] = Append(@, rg.client[ClientOf(w)]),
               !.crossed[w] = @ \/ \E v \in rg.since[w] :
                                      rg.region_name[v] # rg.region_name[w] ]
  /\ UNCHANGED << fnvars3, stackvars, nsvars, fnvars, gp, cm, fs >>

\* The deployers of one stage, constructed on the provider's one client,
\* which points at no region yet (0). For each deployer, calls are the
\* regions its calls went to, since the siblings that selected a region
\* after its own selection, crossed whether one of its calls came after
\* such a selection of another region.
InitRG ==
  /\ StackIdle
  /\ NSIdle
  /\ FnIdle
  /\ Fn3Idle
  /\ gp = [ pc |-> "idle" ]
  /\ cm = [ pc |-> "idle" ]
  /\ fs = [ pc |-> "idle" ]
  /\ \E rn \in [ Regioned -> Regions ] :
       rg = [ pc |-> "run", region_name |-> rn,
              st |-> [ w \in Regioned |-> "new" ],
              client |-> [ w \in { 0 } \cup Regioned |-> 0 ],
              ncalls |-> [ w \in Regioned |-> 0 ],
              calls |-> [ w \in Regioned |-> << >> ],
              since |-> [ w \in Regioned |-> { } ],
              crossed |-> [ w \in Regioned |-> FALSE ] ]

NextRG == \E w \in Regioned :
  \/ RG_start(w)
  \/ RG_set_region(w)
  \/ RG_call(w)

SpecRG == InitRG /\ [][NextRG]_vars

\* ------------------------------------------ CloudManagerServerDeployer
\* self.phases of CloudManagerServerDeployer.
CloudManagerPhases ==
  << [pred |-> "true", act |-> "create_stack"],
     [pred |-> "true", act |-> "find_existing"],
     [pred |-> "attrs", act |-> "wait_for_running"],
     [pred |-> "not_attrs", act |-> "find_def"],
     [pred |-> "not_attrs_or_def", act |-> "define"],
     [pred |-> "not_attrs", act |-> "create"],
     [pred |-> "true", act |-> "add_to_inventory"] >>

\* The phases Deployer.run(action) walks: the inventory phases are those
\* of ServerDeployer.
CMPhases ==
  IF cm.action = "deploy" THEN CloudManagerPhases ELSE InventoryPhases(SERVERS)

\* The deployer's process is in the action of the given name.
CMAt(a) ==
  /\ cm.pc = "run"
  /\ cm.st = "running"
  /\ cm.pi # 0
  /\ CMPhases[cm.pi].act = a

\* The action returned with fields r: the phase loop goes on.
CMReturns(r) == cm' = Enter(CMPhases, r, cm.pi)

\* Exception e leaves the action and Deployer.run: the process exits with
\* code 1.
CMRaises(e) == cm' = [ cm EXCEPT !.st = "exit1", !.err = e ]

\* The backend rejects a request made outside any try block: HTTPError
\* leaves the action and Deployer.run.
CMRejected ==
  /\ Len(cm.rejected) < MaxFaults
  /\ cm' = [ cm EXCEPT !.st = "exit1", !.err = "HTTPError",
                       !.rejected = Append(@, cm.pi) ]

\* Servers.create_stack: when no deployment has the stack's name it posts
\* one; an HTTPError of the post is logged and not raised again.
CM_create_stack ==
  /\ CMAt("create_stack")
  /\ IF cm.deployment
     THEN CMReturns(cm)
     ELSE \/ CMReturns([ cm EXCEPT !.deployment = TRUE ])
          \/ /\ Len(cm.rejected) < MaxFaults
             /\ CMReturns([ cm EXCEPT !.rejected = Append(@, cm.pi) ])
  /\ UNCHANGED << fnvars3, stackvars, nsvars, fnvars, gp, rg, fs >>

\* ServerDeployer.find_existing on Servers.find_servers: self.deployment =
\* find_exact(...) is None without a deployment and .href raises
\* AttributeError; else the first instance found is claimed.
CM_find_existing ==
  /\ CMAt("find_existing")
  /\ IF ~cm.deployment
     THEN CMRaises("AttributeError")
     ELSE \/ CMReturns([ cm EXCEPT !.attrs = IF cm.servers > 0 THEN 1 ELSE 0 ])
          \/ CMRejected
  /\ UNCHANGED << fnvars3, stackvars, nsvars, fnvars, gp, rg, fs >>

\* Servers.find_running: the instance is operational, or the poll ends
\* without it and TimeoutError is raised.
CM_wait_for_running ==
  /\ CMAt("wait_for_running")
  /\ \/ CMReturns(cm)
     \/ CMRaises("TimeoutError")
     \/ CMRejected
  /\ UNCHANGED << fnvars3, stackvars, nsvars, fnvars, gp, rg, fs >>

\* find_def: the first usable server definition of the name is claimed.
CM_find_def ==
  /\ CMAt("find_def")
  /\ \/ CMReturns([ cm EXCEPT !.server_def = IF cm.defs > 0 THEN 1 ELSE 0 ])
     \/ CMRejected
  /\ UNCHANGED << fnvars3, stackvars, nsvars, fnvars, gp, rg, fs >>

\* Servers.define_server posts the definition; an HTTPError of the post is
\* logged and raised again.
CM_define ==
  /\ CMAt("define")
  /\ \/ CMReturns([ cm EXCEPT !.server_def = cm.defs + 1,
                                !.defs = cm.defs + 1 ])
     \/ CMRejected
  /\ UNCHANGED << fnvars3, stackvars, nsvars, fnvars, gp, rg, fs >>

\* create: self.consul.create_server(self.server_def, self.inputs,
\* timeout_s=...) against create_server(self, href, timeout_s=..., **extras)
\* gives timeout_s twice: the call raises TypeError before the method runs.
CM_create ==
  /\ CMAt("create")
  /\ CMRaises("TypeError")
  /\ UNCHANGED << fnvars3, stackvars, nsvars, fnvars, gp, rg, fs >>

\* ServerDeployer.add_to_inventory
CM_add_to_inventory ==
  /\ CMAt("add_to_inventory")
  /\ CMReturns([ cm EXCEPT !.hosts = IF cm.attrs = 0 THEN @
                                     ELSE @ \cup { cm.attrs } ])
  /\ UNCHANGED << fnvars3, stackvars, nsvars, fnvars, gp, rg, fs >>

\* Deployer.run returns after the last phase.
CM_finish ==
  /\ cm.pc = "run"
  /\ cm.st = "running"
  /\ cm.pi = 0
  /\ cm' = [ cm EXCEPT !.st = "exit0" ]
  /\ UNCHANGED << fnvars3, stackvars, nsvars, fnvars, gp, rg, fs >>

\* A deployer of a rightscale server spec, its process started, against a
\* backend with or without the stack's deployment, a running server and a
\* usable server definition.
InitCM ==
  /\ StackIdle
  /\ NSIdle
  /\ FnIdle
  /\ Fn3Idle
  /\ gp = [ pc |-> "idle" ]
  /\ rg = [ pc |-> "idle" ]
  /\ fs = [ pc |-> "idle" ]
  /\ \E a \in { "deploy", "inventory" } : \E d \in BOOLEAN :
     \E s \in 0..MaxExisting : \E f \in 0..MaxExisting :
       /\ ~d => (s = 0 /\ f = 0)
       /\ cm = Enter(IF a = "deploy" THEN CloudManagerPhases
                     ELSE InventoryPhases(SERVERS),
                     [ pc |-> "run", action |-> a, st |-> "running", pi |-> 0,
                       evals |-> << >>, ran |-> << >>, attrs |-> 0,
                       server_def |-> 0, deployment |-> d, servers |-> s,
                       defs |-> f, rejected |-> << >>, err |-> "none",
                       hosts |-> { } ], 0)

NextCM ==
  \/ CM_create_stack
  \/ CM_find_existing
  \/ CM_wait_for_running
  \/ CM_find_def
  \/ CM_define
  \/ CM_create
  \/ CM_add_to_inventory
  \/ CM_finish

SpecCM == InitCM /\ [][NextCM]_vars

\* ------------------------------------------------------ lookup by name
FSNames == { 1, 2 }

\* The backend listings: up to MaxMatches resources, each with a name and
\* the id its position gives it.
Listings ==
  UNION { { [ i \in 1..n |-> [ name |-> f[i], id |-> i ] ] :
              f \in [ 1..n -> FSNames ] } : n \in 0..MaxMatches }

\* The resources of a listing that have the name, in the backend's order:
\* security_groups.findall(name=name), get_all_security_groups(filters=...),
\* filter(lambda l: l['name'] == name, self.list_lbs()).
Matching(items, name) == SelectSeq(items, LAMBDA x : x.name = name)

\* Nova.find_secgroup, EC2.find_secgroup: if groups: return
\* NovaSecGroup(groups[0]), else None.
find_secgroup(matching) ==
  IF matching # << >> THEN [ raised |-> FALSE, val |-> matching[1].id ]
  ELSE [ raised |-> FALSE, val |-> None ]

\* A variant that takes the first match, as find_secgroup does.
find_lb_by_name_first(matching) ==
  IF matching # << >> THEN [ raised |-> FALSE, val |-> matching[1].id ]
  ELSE [ raised |-> FALSE, val |-> None ]

\* LoadBalancer.find_lb_by_name: ValueError when more than one matched,
\* else the match, else None.
find_lb_by_name(matching) ==
  IF Len(matching) > 1 THEN [ raised |-> TRUE, val |-> None ]
  ELSE IF matching # << >> THEN [ raised |-> FALSE, val |-> matching[1].id ]
  ELSE [ raised |-> FALSE, val |-> None ]

\* The backend answers the consul's query with the resources of the name.
FS_list ==
  /\ fs.pc = "query"
  /\ fs' = [ fs EXCEPT !.pc = "matched",
                       !.matching = Matching(fs.listing, fs.name) ]
  /\ UNCHANGED << fnvars3, stackvars, nsvars, fnvars, gp, rg, cm >>

\* SecurityGroupDeployer.find_existing: self.group =
\* self.consul.find_secgroup(self.name); the phase loop goes on.
FS_find_secgroup ==
  /\ fs.pc = "matched"
  /\ fs.kind = "secgroup"
  /\ fs' = [ fs EXCEPT !.pc = "done", !.res = find_secgroup(fs.matching) ]
  /\ UNCHANGED << fnvars3, stackvars, nsvars, fnvars, gp, rg, cm >>

\* LoadBalancerDeployer.find_existing: self.lb_attrs =
\* self.consul.find_lb_by_name(self.instance_name); a ValueError leaves the
\* action and Deployer.run.
FS_find_lb_by_name ==
  /\ fs.pc = "matched"
  /\ fs.kind = "lb"
  /\ fs' = [ fs EXCEPT
               !.pc = "done",
               !.res = find_lb_by_name(fs.matching),
               !.st = IF find_lb_by_name(fs.matching).raised THEN "exit1"
                      ELSE "running" ]
  /\ UNCHANGED << fnvars3, stackvars, nsvars, fnvars, gp, rg, cm >>

\* A deployer in its find_existing phase, about to look its name up.
InitFS ==
  /\ StackIdle
  /\ NSIdle
  /\ FnIdle
  /\ Fn3Idle
  /\ gp = [ pc |-> "idle" ]
  /\ rg = [ pc |-> "idle" ]
  /\ cm = [ pc |-> "idle" ]
  /\ \E k \in { "secgroup", "lb" } : \E l \in Listings : \E n \in FSNames :
       fs = [ pc |-> "query", kind |-> k, listing |-> l, name |-> n,
              matching |-> << >>, st |-> "running",
              res |-> [ raised |-> FALSE, val |-> None ] ]

NextFS ==
  \/ FS_list
  \/ FS_find_secgroup
  \/ FS_find_lb_by_name

SpecFS == InitFS /\ [][NextFS]_vars

\* ------------------------------------------- load balancer node matching
\* One call match_lb_nodes(lb_id, existing_nodes, host_addresses, host_port)
\* on a load balancer whose nodes are existing_nodes: a node has an id, an
\* address and a port, and no two nodes of a load balancer share both.
LBHosts == { 1, 2 }
LBPorts == { 1, 2 }
NodeLists ==
  UNION { { [ i \in 1..n |-> [ id |-> i, address |-> f[i][1], port |-> f[i][2] ] ] :
              f \in { g \in [ 1..n -> LBHosts \X LBPorts ] : DuplicateFree(g) } } :
          n \in 0..MaxNodes }

\* delete_nodes = filter(delete_filter, existing_nodes)
delete_nodes(existing_nodes, host_addresses, host_port) ==
  SelectSeq(existing_nodes,
            LAMBDA n : n.address \notin host_addresses \/ n.port # host_port)

\* current_nodes = set(addresses of existing_nodes) - set(delete_node_hosts);
\* add_nodes = host_addresses - current_nodes
add_nodes(existing_nodes, host_addresses, host_port) ==
  LET del == delete_nodes(existing_nodes, host_addresses, host_port)
      delete_node_hosts == { del[i].address : i \in 1..Len(del) }
      current_nodes == { existing_nodes[i].address :
                           i \in 1..Len(existing_nodes) } \ delete_node_hosts
  IN host_addresses \ current_nodes

\* The requests of remove_lb_nodes: one DELETE for each node id.
RemoveRequests(existing_nodes, host_addresses, host_port) ==
  LET del == delete_nodes(existing_nodes, host_addresses, host_port)
  IN [ i \in 1..Len(del) |-> [ op |-> "remove", id |-> del[i].id, hosts |-> { } ] ]

\* The request of add_lb_nodes: one POST with all the nodes to add.
AddRequests(existing_nodes, host_addresses, host_port) ==
  LET add == add_nodes(existing_nodes, host_addresses, host_port)
  IN IF add # { } THEN << [ op |-> "add", id |-> 0, hosts |-> add ] >>
     ELSE << >>

\* A variant that deletes first and adds after.
MatchRequests_remove_first(existing_nodes, host_addresses, host_port) ==
  RemoveRequests(existing_nodes, host_addresses, host_port)
    \o AddRequests(existing_nodes, host_addresses, host_port)

\* if add_nodes: self.add_lb_nodes(...); if delete_node_ids:
\* self.remove_lb_nodes(...): the requests match_lb_nodes makes, in order.
MatchRequests(existing_nodes, host_addresses, host_port) ==
  AddRequests(existing_nodes, host_addresses, host_port)
    \o RemoveRequests(existing_nodes, host_addresses, host_port)

LBTodo == MatchRequests(lb.existing_nodes, lb.host_addresses, lb.host_port)

\* The backend's nodes after it has served request c: added nodes get the
\* next ids, a removed node is gone.
Served(nodes, c, host_port) ==
  IF c.op = "add"
  THEN LET hs == SortedSeq(c.hosts)
           top == Len(lb.existing_nodes)
       IN nodes \cup { [ id |-> top + i, address |-> hs[i], port |-> host_port ] :
                         i \in 1..Len(hs) }
  ELSE { n \in nodes : n.id # c.id }

\* The next request of match_lb_nodes is served.
LB_request ==
  /\ lb.pc = "call"
  /\ Len(lb.requests) < Len(LBTodo)
  /\ LET c == LBTodo[Len(lb.requests) + 1]
     IN lb' = [ lb EXCEPT !.requests = Append(@, c),
                          !.nodes = Served(@, c, lb.host_port) ]
  /\ UNCHANGED << stackvars, nsvars, fnvars, fnvars2, cf, ops, fd >>

\* The backend rejects the next request: resp.raise_for_status() raises
\* HTTPError, which leaves _request and match_lb_nodes.
LB_rejected ==
  /\ lb.pc = "call"
  /\ Len(lb.requests) < Len(LBTodo)
  /\ lb' = [ lb EXCEPT !.pc = "raised" ]
  /\ UNCHANGED << stackvars, nsvars, fnvars, fnvars2, cf, ops, fd >>

\* Every request is made: match_lb_nodes logs the counts and returns.
LB_return ==
  /\ lb.pc = "call"
  /\ Len(lb.requests) = Len(LBTodo)
  /\ lb' = [ lb EXCEPT !.pc = "done" ]
  /\ UNCHANGED << stackvars, nsvars, fnvars, fnvars2, cf, ops, fd >>

\* configure_nodes calls match_lb_nodes with the nodes lb_details has just
\* returned, the required hosts and the backend port.
InitLB ==
  /\ StackIdle
  /\ NSIdle
  /\ FnIdle
  /\ Fn2Idle
  /\ cf = [ pc |-> "idle" ]
  /\ ops = [ pc |-> "idle" ]
  /\ fd = [ pc |-> "idle" ]
  /\ \E e \in NodeLists : \E H \in SUBSET LBHosts : \E p \in LBPorts :
       lb = [ pc |-> "call", existing_nodes |-> e, host_addresses |-> H,
              host_port |-> p, nodes |-> Range(e), requests |-> << >> ]

NextLB ==
  \/ LB_request
  \/ LB_rejected
  \/ LB_return

SpecLB == InitLB /\ [][NextLB]_vars

\* ------------------------------------------------ Config.from_config_specs
\* One call Config.from_config_specs(config_specs, prepare=False) with a
\* ~/.bangrc and the config files of the specs. Top-level key 1 is one of
\* RC_KEYS, key 2 is not; every value of source s (0 for .bangrc, i for the
\* i-th file) is the leaf s or a mapping with one key whose value is the
\* leaf s, so that a value of the result tells which source it came from.
CFKeys == { 1, 2 }
RC_KEYS == { 1 }
CFValues(s) ==
  { Leaf(s) } \cup { Mapping([ j \in { k } |-> Leaf(s) ]) : k \in CFKeys }
CFMaps(s) == UNION { [ S -> CFValues(s) ] : S \in SUBSET CFKeys }

\* A variant that keeps every key of .bangrc.
parse_bangrc_all(raw) == raw

\* return dict((k, raw[k]) for k in raw if k in RC_KEYS)
parse_bangrc(raw) == [ k \in DOMAIN raw \cap RC_KEYS |-> raw[k] ]

\* dict.update
update(d, other) ==
  [ k \in DOMAIN d \cup DOMAIN other |->
      IF k \in DOMAIN other THEN other[k] ELSE d[k] ]

\* bangrc = parse_bangrc(); config = cls(); config.update(bangrc)
CF_update ==
  /\ cf.pc = "start"
  /\ cf' = [ cf EXCEPT !.pc = "files",
                        !.bangrc = parse_bangrc(cf.raw),
                        !.config = update(EmptyMap, parse_bangrc(cf.raw)) ]
  /\ UNCHANGED << stackvars, nsvars, fnvars, fnvars2, lb, ops, fd >>

\* for c in config_paths: deep_merge_dicts(config, yaml.safe_load(f))
CF_merge ==
  /\ cf.pc = "files"
  /\ cf.merged < Len(cf.files)
  /\ cf' = [ cf EXCEPT
               !.merged = @ + 1,
               !.config = deep_merge_dicts(@, cf.files[cf.merged + 1]) ]
  /\ UNCHANGED << stackvars, nsvars, fnvars, fnvars2, lb, ops, fd >>

\* The loop is over: return config.
CF_return ==
  /\ cf.pc = "files"
  /\ cf.merged = Len(cf.files)
  /\ cf' = [ cf EXCEPT !.pc = "done" ]
  /\ UNCHANGED << stackvars, nsvars, fnvars, fnvars2, lb, ops, fd >>

\* The raw content of ~/.bangrc ({} when there is none) and the mappings
\* the config files hold.
InitCF ==
  /\ StackIdle
  /\ NSIdle
  /\ FnIdle
  /\ Fn2Idle
  /\ lb = [ pc |-> "idle" ]
  /\ ops = [ pc |-> "idle" ]
  /\ fd = [ pc |-> "idle" ]
  /\ \E raw \in CFMaps(0) : \E n \in 0..MaxFiles :
     \E files \in [ 1..n -> UNION { CFMaps(i) : i \in 1..n } ] :
       /\ \A i \in 1..n : files[i] \in CFMaps(i)
       /\ cf = [ pc |-> "start", raw |-> raw, files |-> files,
                 bangrc |-> EmptyMap, config |-> EmptyMap, merged |-> 0 ]

NextCF ==
  \/ CF_update
  \/ CF_merge
  \/ CF_return

SpecCF == InitCF /\ [][NextCF]_vars

\* ------------------------------------------- operations on one Stack
\* One Stack object with a server spec, and the operations a caller makes
\* on it one after the other. hist holds the finished operations: whether
\* have_inventory was set at the call (hi), whether the wrapper ran a
\* gather pass and how it ended, whether the operation's own body ran.
\* For each server id, granted is the number of the operation in which
\* add_if_unique returned True for it (0 when it never has), regranted
\* whether it returned True again later, refused whether it returned False
\* in a later operation than that.
Ops == { "deploy", "gather_inventory", "configure", "show_inventory" }
Requiring == { "configure", "show_inventory" }
OpIds == 1..MaxIds
NoOp == [ op |-> "none", hi |-> FALSE, phase |-> "none", gathered |-> FALSE,
          gather_ok |-> FALSE, body |-> FALSE, ok |-> FALSE ]

\* A variant that hands every run a new namespace.
get_namespace_new(created, ns) == << >>

\* Stack.get_namespace(key): the namespace stored under the key, or a new
\* one, which is stored.
get_namespace(created, ns) == IF created THEN ns ELSE << >>

\* A variant of the wrapper that gathers before every call.
NeedsGather_always(hi) == TRUE

\* require_inventory: if not self.have_inventory: self.gather_inventory()
NeedsGather(hi) == ~hi

\* self._run(action) begins: get_deployers constructs the deployers, the
\* server deployers fetch their namespace.
OPStartRun(c) ==
  ops' = [ ops EXCEPT !.cur = [ c EXCEPT !.phase = "run" ],
                      !.names = get_namespace(ops.created, ops.names),
                      !.created = TRUE ]

\* The caller calls deploy(), gather_inventory(), configure() or
\* show_inventory(); the last two go through the require_inventory wrapper.
OP_call ==
  /\ ops.pc = "stack"
  /\ ops.cur.op = "none"
  /\ Len(ops.hist) < MaxOps
  /\ \E op \in Ops :
       LET c == [ NoOp EXCEPT !.op = op, !.hi = ops.have_inventory ]
       IN IF op \in Requiring
          THEN IF NeedsGather(ops.have_inventory)
               THEN OPStartRun([ c EXCEPT !.gathered = TRUE ])
               ELSE ops' = [ ops EXCEPT !.cur = [ c EXCEPT !.phase = "body" ] ]
          ELSE OPStartRun(c)
  /\ UNCHANGED << stackvars, nsvars, fnvars, fnvars2, lb, cf, fd >>

\* A server unit of the run calls self.namespace.add_if_unique(server_id).
OP_add_if_unique ==
  /\ ops.pc = "stack"
  /\ ops.cur.phase = "run"
  /\ \E id \in OpIds :
       LET res == add_if_unique(ops.names, id)
           n == Len(ops.hist) + 1
       IN ops' = [ ops EXCEPT
                     !.names = IF res THEN Append(@, id) ELSE @,
                     !.granted[id] = IF res /\ @ = 0 THEN n ELSE @,
                     !.regranted[id] = @ \/ (res /\ ops.granted[id] # 0),
                     !.refused[id] = @ \/ (~res /\ ops.granted[id] < n) ]
  /\ UNCHANGED << stackvars, nsvars, fnvars, fnvars2, lb, cf, fd >>

\* _run returns: deploy() and gather_inventory() set have_inventory and
\* return; in the wrapper the operation's own body is next.
OP_run_returns ==
  /\ ops.pc = "stack"
  /\ ops.cur.phase = "run"
  /\ IF ops.cur.op \in Requiring
     THEN ops' = [ ops EXCEPT !.have_inventory = TRUE,
                              !.cur = [ @ EXCEPT !.phase = "body",
                                                 !.gather_ok = TRUE ] ]
     ELSE ops' = [ ops EXCEPT !.have_inventory = TRUE,
                              !.hist = Append(@, [ ops.cur EXCEPT !.ok = TRUE ]),
                              !.cur = NoOp ]
  /\ UNCHANGED << stackvars, nsvars, fnvars, fnvars2, lb, cf, fd >>

\* _run raises BangError (a stage had errors): the exception leaves
\* deploy() or gather_inventory(), and the wrapper with it.
OP_run_raises ==
  /\ ops.pc = "stack"
  /\ ops.cur.phase = "run"
  /\ ops' = [ ops EXCEPT !.hist = Append(@, ops.cur), !.cur = NoOp ]
  /\ UNCHANGED << stackvars, nsvars, fnvars, fnvars2, lb, cf, fd >>

\* return f(self, *args, **kwargs): the body of configure or show_inventory.
OP_body ==
  /\ ops.pc = "stack"
  /\ ops.cur.phase = "body"
  /\ ops' = [ ops EXCEPT
                !.hist = Append(@, [ ops.cur EXCEPT !.body = TRUE, !.ok = TRUE ]),
                !.cur = NoOp ]
  /\ UNCHANGED << stackvars, nsvars, fnvars, fnvars2, lb, cf, fd >>

\* Stack.__init__: no namespace, no inventory.
InitOP ==
  /\ StackIdle
  /\ NSIdle
  /\ FnIdle
  /\ Fn2Idle
  /\ lb = [ pc |-> "idle" ]
  /\ cf = [ pc |-> "idle" ]
  /\ fd = [ pc |-> "idle" ]
  /\ ops = [ pc |-> "stack", have_inventory |-> FALSE, created |-> FALSE,
             names |-> << >>, hist |-> << >>, cur |-> NoOp,
             granted |-> [ id \in OpIds |-> 0 ],
             regranted |-> [ id \in OpIds |-> FALSE ],
             refused |-> [ id \in OpIds |-> FALSE ] ]

NextOP ==
  \/ OP_call
  \/ OP_add_if_unique
  \/ OP_run_returns
  \/ OP_run_raises
  \/ OP_body

SpecOP == InitOP /\ [][NextOP]_vars

\* ------------------------------------------------- find_def under load
\* The CloudManagerServerDeployer units of one server name that found no
\* server, in find_def at the same time. Their namespace is the one
\* ServerDeployer.__init__ fetched for the name: it holds the ids of the
\* servers sibling units claimed in find_existing (ServerIdBase + i) and the
\* hrefs claimed in find_def (1..defs).
ServerIdBase == 10
Finders == DOMAIN fd.unit

\* server_defs = self.consul.find_server_defs(self.name);
\* maxnames = len(server_defs)
FD_find_server_defs(u) ==
  /\ fd.pc = "run"
  /\ fd.unit[u].st = "call"
  /\ fd' = [ fd EXCEPT !.unit[u] =
               [ @ EXCEPT !.st = "loop",
                          !.server_defs = [ i \in 1..fd.defs |-> i ],
                          !.maxnames = fd.defs ] ]
  /\ UNCHANGED << stackvars, nsvars, fnvars, fnvars2, lb, cf, ops >>

\* One pass of the while loop up to the claim: pop the first href and try
\* to claim it; an empty list ends find_def.
FD_claim(u) ==
  /\ fd.pc = "run"
  /\ fd.unit[u].st = "loop"
  /\ IF fd.unit[u].server_defs = << >>
     THEN fd' = [ fd EXCEPT !.unit[u].st = "done" ]
     ELSE LET href == Head(fd.unit[u].server_defs)
              r == [ fd.unit[u] EXCEPT !.server_defs = Tail(@),
                                       !.tried = Append(@, href) ]
          IN IF add_if_unique(fd.names, href)
             THEN fd' = [ fd EXCEPT
                            !.names = Append(@, href),
                            !.unit[u] = [ r EXCEPT !.server_def = href,
                                                   !.st = "done" ] ]
             ELSE fd' = [ fd EXCEPT
                            !.unit[u] = [ r EXCEPT !.cur = href, !.st = "chk" ] ]
  /\ UNCHANGED << stackvars, nsvars, fnvars, fnvars2, lb, cf, ops >>

\* if len(self.namespace.names) >= maxnames: break; else
\* server_defs.append(href)
FD_recheck(u) ==
  /\ fd.pc = "run"
  /\ fd.unit[u].st = "chk"
  /\ IF Len(fd.names) >= fd.unit[u].maxnames
     THEN fd' = [ fd EXCEPT !.unit[u].st = "done" ]
     ELSE fd' = [ fd EXCEPT !.unit[u] =
                    [ @ EXCEPT !.server_defs = Append(@, fd.unit[u].cur),
                               !.st = "loop" ] ]
  /\ UNCHANGED << stackvars, nsvars, fnvars, fnvars2, lb, cf, ops >>

\* The stage's find_existing phases are over: sibling units have claimed
\* the running servers; the units that found none enter find_def.
InitFD ==
  /\ StackIdle
  /\ NSIdle
  /\ FnIdle
  /\ Fn2Idle
  /\ lb = [ pc |-> "idle" ]
  /\ cf = [ pc |-> "idle" ]
  /\ ops = [ pc |-> "idle" ]
  /\ \E k \in 0..MaxExisting : \E m \in 0..MaxDefs : \E n \in 1..MaxFinders :
       fd = [ pc |-> "run",
              names |-> [ i \in 1..k |-> ServerIdBase + i ],
              defs |-> m,
              unit |-> [ u \in 1..n |->
                           [ st |-> "call", server_defs |-> << >>,
                             maxnames |-> 0, cur |-> 0, server_def |-> 0,
                             tried |-> << >> ] ] ]

NextFD == \E u \in Finders :
  \/ FD_find_server_defs(u)
  \/ FD_claim(u)
  \/ FD_recheck(u)

SpecFD == InitFD /\ [][NextFD]_vars

TypeOK ==
  /\ opc \in { "idle", "run", "done", "failed" }
  /\ stage \in 0..(NStages - 1)
  /\ \A u \in Units : unit[u].st \in { "new", "running", "exit0", "exit1" }

\* ================================================================ claims
Started(u) == unit[u].st # "new"
\* The orchestrator's join loop has passed unit u.
Joined(u) ==
  \/ StageOf(u) < stage
  \/ StageOf(u) = stage /\ nstarted = NChildren(stage)
       /\ u <= Base(stage) + njoined
\* Position of x in sequence q (0 when absent).
Pos(q, x) == IF x \in Range(q) THEN CHOOSE i \in 1..Len(q) : q[i] = x ELSE 0
ServerUnits == { u \in Units : KindOf(u) = SERVERS }

\* C1: no worker of a later stage is started until every worker of every
\* earlier stage has been started, has exited and has been joined.
C1_StageOrder ==
  \A u \in Units : \A v \in Units :
     (StageOf(u) < StageOf(v) /\ Started(v)) =>
        (Started(u) /\ Exited(u) /\ Joined(u))

\* C1 witness: a worker of a later stage runs after two workers of an
\* earlier stage interleaved (the one started second exited first).
C1_Witness ==
  \E a \in Units : \E b \in Units : \E v \in Units :
     /\ StageOf(a) = StageOf(b)
     /\ a < b
     /\ Pos(exitSeq, b) # 0
     /\ Pos(exitSeq, b) < Pos(exitSeq, a)
     /\ StageOf(a) < StageOf(v)
     /\ Started(v)

\* C2: once a worker of stage K has exited with an error, no worker of a
\* later stage is ever started, the run never completes, and the error it
\* raises is a BangError carrying stage K and the number of workers of
\* stage K that exited non-zero.
C2_FailureHalts ==
  \A u \in Units :
     unit[u].st = "exit1" =>
        /\ \A v \in Units : StageOf(v) > StageOf(u) => ~Started(v)
        /\ stage = StageOf(u)
        /\ opc \in { "run", "failed" }
        /\ opc = "failed" =>
             /\ raised.type = "BangError"
             /\ raised.stage = StageOf(u)
             /\ raised.errors =
                  Cardinality({ w \in Corunners(StageOf(u)) :
                                  unit[w].st = "exit1" })

\* C2 witness: the run has raised for a stage with a failed worker while
\* a later stage has deployers that were never started.
C2_Witness ==
  /\ opc = "failed"
  /\ raised.type = "BangError"
  /\ raised.errors >= 1
  /\ \E u \in Units : \E v \in Units :
        /\ unit[u].st = "exit1"
        /\ StageOf(v) > StageOf(u)
        /\ unit[v].st = "new"

\* C3: the stage's error count is acted on only after every worker of the
\* stage has been joined, each having run to its own end: exited with an
\* error, or exited normally with no phase left.
C3_NoEarlyCancel ==
  (opc = "failed" /\ raised.type = "BangError") =>
     /\ njoined = NChildren(stage)
     /\ \A u \in Corunners(stage) :
           /\ Exited(u)
           /\ unit[u].st = "exit0" => unit[u].pi = 0

\* C3 witness: the run raised for a stage in which a sibling finished all
\* its phases after another worker of the stage had already failed.
C3_Witness ==
  /\ opc = "failed"
  /\ raised.type = "BangError"
  /\ \E a \in Corunners(stage) : \E b \in Corunners(stage) :
        /\ unit[a].st = "exit1"
        /\ unit[b].st = "exit0"
        /\ unit[b].pi = 0
        /\ Pos(exitSeq, a) < Pos(exitSeq, b)

AllReturned == \A c \in Callers : call[c].pc = "done"
IdsUsed == { call[c].name : c \in Callers }
Occurrences(q, x) == Cardinality({ i \in 1..Len(q) : q[i] = x })

\* C4: when N concurrent add_if_unique calls with M distinct ids have all
\* returned, exactly M returned True and N-M False, exactly one call
\* returned True for each id, and the namespace holds each id once; and
\* the namespace never holds an id twice on the way.
C4_ClaimOnce ==
  /\ \A x \in 1..MaxIds : Occurrences(nsnames, x) <= 1
  /\ AllReturned =>
       /\ Cardinality({ c \in Callers : call[c].result })
            = Cardinality(IdsUsed)
       /\ Cardinality({ c \in Callers : ~call[c].result })
            = Cardinality(Callers) - Cardinality(IdsUsed)
       /\ \A x \in IdsUsed :
            Cardinality({ c \in Callers :
                            call[c].name = x /\ call[c].result }) = 1
       /\ \A x \in IdsUsed : Occurrences(nsnames, x) = 1

\* C4 witness: three calls with two distinct ids have all returned.
C4_Witness ==
  /\ AllReturned
  /\ Cardinality(Callers) >= 3
  /\ Cardinality(IdsUsed) = 2
  /\ \E c \in Callers : ~call[c].result

\* C5: in a deploy, no two server deployers that have finished hold the
\* same server id in server_attrs.
C5_DistinctServers ==
  action = "deploy" =>
     \A u \in ServerUnits : \A v \in ServerUnits :
        (u # v /\ unit[u].st = "exit0" /\ unit[v].st = "exit0"
           /\ unit[u].attrs # 0) => unit[u].attrs # unit[v].attrs

\* C6: find_existing tries to claim each candidate at most once and makes
\* no more attempts than find_servers returned candidates (so its loop
\* ends); when it ends without a claim server_attrs is unset and, in a
\* deploy, the next phase to run is create.
C6_FindExisting ==
  \A u \in ServerUnits :
     /\ \A x \in Range(unit[u].tried) : Occurrences(unit[u].tried, x) = 1
     /\ Started(u) /\ ~(unit[u].pi = 1 /\ unit[u].sub = "call")
          => Len(unit[u].tried) <= unit[u].maxnames
     /\ (action = "deploy" /\ unit[u].st \in { "running", "exit0" }
           /\ unit[u].attrs = 0)
          => \/ unit[u].pi = 1
             \/ unit[u].pi # 0 /\ Act(u) = "create"

\* C6 witness: a deployer whose only candidate was already claimed by a
\* sibling has left find_existing without server_attrs and is at create.
C6_Witness ==
  \E u \in ServerUnits :
     /\ action = "deploy"
     /\ Running(u)
     /\ Len(unit[u].tried) >= 1
     /\ unit[u].attrs = 0
     /\ unit[u].pi # 0
     /\ Act(u) = "create"

\* C7: a second deploy of the same definition on the backend the first
\* deploy left issues no create call and ends with the inventory of the
\* first run.
C7_Idempotent ==
  run = 2 =>
     /\ creates = 0
     /\ opc = "done" => << dicts, lists >> = inv1

\* C8: in an inventory run no create call is made and the backend's
\* resources stay what they were when the run started.
C8_InventoryReadOnly ==
  action = "inventory" => (cloud = cloud0 /\ creates = 0)

\* C8 witness: an inventory run has completed in which one server deployer
\* found a server and another found none.
C8_Witness ==
  /\ action = "inventory"
  /\ opc = "done"
  /\ \E u \in ServerUnits : \E v \in ServerUnits :
        /\ unit[u].st = "exit0" /\ unit[u].attrs # 0
        /\ unit[v].st = "exit0" /\ unit[v].attrs = 0

\* The fixed dependency table, as pairs (earlier kinds, later kinds).
DependsOn ==
  { << { SERVER_SECURITY_GROUPS, SSH_KEYS }, { SERVER_SECURITY_GROUP_RULES } >>,
    << { SERVER_SECURITY_GROUP_RULES }, { SERVERS, DATABASES } >>,
    << { SERVERS }, { LOAD_BALANCERS } >>,
    << { LOAD_BALANCERS }, { DYNAMIC_LB_SEC_GROUPS } >> }

\* C9: every security-group and SSH-key unit has completed before any
\* rule-set unit starts, every rule-set unit before any server or database
\* unit, every server unit before any load-balancer unit, every
\* load-balancer unit before any dynamic security-group unit.
C9_KindOrder ==
  \A d \in DependsOn : \A u \in Units : \A v \in Units :
     (KindOf(u) \in d[1] /\ KindOf(v) \in d[2] /\ Started(v)) => Exited(u)

\* C9 witness: a server unit has started after a rule-set unit completed,
\* which itself ran after a security-group unit completed.
C9_Witness ==
  \E u \in Units : \E v \in Units : \E w \in Units :
     /\ KindOf(u) = SERVER_SECURITY_GROUPS /\ unit[u].st = "exit0"
     /\ KindOf(v) = SERVER_SECURITY_GROUP_RULES /\ unit[v].st = "exit0"
     /\ KindOf(w) = SERVERS /\ Started(w)

\* The actions unit u has called so far, by name.
RanActs(u) == { MyPhases(u)[unit[u].ran[j]].act : j \in 1..Len(unit[u].ran) }
Last(q) == q[Len(q)]

\* C11: in a deploy, a unit evaluates the predicates of its phases in list
\* order, each at most once and none while the action of an earlier phase
\* has not returned; the actions it has called are exactly the phases whose
\* predicate evaluated to true; after an action raised, no later predicate
\* was evaluated and no later action called; a unit that exits normally has
\* evaluated every predicate.
C11_PhaseOrder ==
  action = "deploy" =>
    \A u \in Units :
      LET e == unit[u].evals
          r == unit[u].ran
      IN /\ \A j \in 1..Len(e) : e[j].idx = j
         /\ r = SelectSeq([ j \in 1..Len(e) |-> IF e[j].val THEN j ELSE 0 ],
                          LAMBDA x : x # 0)
         /\ (Running(u) /\ unit[u].pi # 0) =>
               /\ Len(e) = unit[u].pi
               /\ Last(r) = unit[u].pi
         /\ unit[u].st = "exit1" =>
               /\ Len(e) = unit[u].pi
               /\ Last(r) = unit[u].pi
         /\ unit[u].st = "exit0" => Len(e) = Len(MyPhases(u))
         /\ unit[u].st = "new" => e = << >> /\ r = << >>

\* A unit skipped a phase whose predicate was false, called a later action,
\* and that action raised before the unit's last phase.
C11_Witness ==
  /\ action = "deploy"
  /\ \E u \in Units :
       /\ unit[u].st = "exit1"
       /\ unit[u].pi < Len(MyPhases(u))
       /\ Len(unit[u].ran) >= 2
       /\ \E j \in 1..Len(unit[u].evals) : ~unit[u].evals[j].val

\* C12: in a deploy, a server unit whose find_existing returned calls
\* wait_for_running exactly when find_existing claimed a server and create
\* exactly when it claimed none, never both; and add_to_inventory is the
\* last action of every server unit that exits without failing.
C12_ServerPhases ==
  \A u \in ServerUnits :
    /\ action = "deploy" =>
         /\ Len(unit[u].evals) >= 2 =>
              /\ "wait_for_running" \in RanActs(u) <=> unit[u].claimed # 0
              /\ "create" \in RanActs(u) <=> unit[u].claimed = 0
         /\ Len(unit[u].evals) < 2 =>
              RanActs(u) \cap { "wait_for_running", "create" } = { }
         /\ ~({ "wait_for_running", "create" } \subseteq RanActs(u))
    /\ unit[u].st = "exit0" =>
         /\ unit[u].ran # << >>
         /\ MyPhases(u)[Last(unit[u].ran)].act = "add_to_inventory"

\* One server unit adopted a running server and a sibling created one; both
\* registered and exited normally.
C12_Witness ==
  /\ action = "deploy"
  /\ \E u \in ServerUnits : \E v \in ServerUnits :
       /\ unit[u].st = "exit0" /\ unit[v].st = "exit0"
       /\ "wait_for_running" \in RanActs(u)
       /\ "create" \in RanActs(v)

\* C13: for every map E of existing rules and every duplicate-free list D
\* of declared rules, find_existing leaves in create_these_rules exactly the
\* rules of D that are not keys of E, each once, and in delete_these_rules
\* exactly the native ids of the keys of E that are not in D, each once; a
\* rule on both sides is in neither list.
C13_RuleDiff ==
  (rd.pc = "done" /\ DuplicateFree(rd.D)) =>
    /\ Range(rd.create_these_rules) = Range(rd.D) \ DOMAIN rd.E
    /\ DuplicateFree(rd.create_these_rules)
    /\ Range(rd.delete_these_rules) =
         { rd.E[x] : x \in DOMAIN rd.E \ Range(rd.D) }
    /\ DuplicateFree(rd.delete_these_rules)
    /\ \A x \in DOMAIN rd.E \cap Range(rd.D) :
         /\ x \notin Range(rd.create_these_rules)
         /\ rd.E[x] \notin Range(rd.delete_these_rules)

\* A diff with a rule to keep, a rule to create and a rule to delete.
C13_Witness ==
  /\ rd.pc = "done"
  /\ DuplicateFree(rd.D)
  /\ DOMAIN rd.E \cap Range(rd.D) # { }
  /\ rd.create_these_rules # << >>
  /\ rd.delete_these_rules # << >>

RulesetUnits == { u \in Units : KindOf(u) = SERVER_SECURITY_GROUP_RULES }

\* C14: a rule-set unit calls apply_rule_changes only when find_existing
\* queued at least one creation or deletion, and among the provider calls
\* apply_rule_changes issues no deletion comes before a creation.
C14_ApplyOrder ==
  \A u \in RulesetUnits :
    /\ "apply_rule_changes" \in RanActs(u) =>
         \/ unit[u].create_these_rules # << >>
         \/ unit[u].delete_these_rules # << >>
    /\ unit[u].calls # << >> => "apply_rule_changes" \in RanActs(u)
    /\ \A i \in 1..Len(unit[u].calls) : \A j \in 1..Len(unit[u].calls) :
         (unit[u].calls[i].op = "delete" /\ unit[u].calls[j].op = "create")
           => j < i

\* A rule-set unit authorized one rule, then revoked another, and exited
\* normally.
C14_Witness ==
  \E u \in RulesetUnits :
    /\ unit[u].st = "exit0"
    /\ \E i \in 1..Len(unit[u].calls) : unit[u].calls[i].op = "create"
    /\ \E i \in 1..Len(unit[u].calls) : unit[u].calls[i].op = "delete"

\* What the claim says base must be after merging incoming I into base B.
RECURSIVE IsMergeOf(_, _, _)
IsMergeOf(R, B, I) ==
  /\ DOMAIN R = DOMAIN B \cup DOMAIN I
  /\ \A k \in DOMAIN R :
       IF k \in DOMAIN B /\ k \in DOMAIN I
          /\ B[k].kind = "map" /\ I[k].kind = "map"
       THEN /\ R[k].kind = "map"
            /\ IsMergeOf(R[k].items, B[k].items, I[k].items)
       ELSE IF k \in DOMAIN I THEN R[k] = I[k]
       ELSE R[k] = B[k]

\* C15: after deep_merge_dicts(base, incoming), for each key: if it is in
\* both and both values are mappings the value is their recursive merge;
\* otherwise if it is in incoming the value is incoming's; otherwise it is
\* base's, unchanged. In particular a key of base that incoming lacks is
\* kept with its value at the top and inside every merged mapping.
C15_DeepMerge ==
  dm.pc = "done" =>
    /\ IsMergeOf(dm.after, dm.base, dm.incoming)
    /\ \A k \in DOMAIN dm.base \ DOMAIN dm.incoming :
         k \in DOMAIN dm.after /\ dm.after[k] = dm.base[k]
    /\ \A k \in DOMAIN dm.base \cap DOMAIN dm.incoming :
         (dm.base[k].kind = "map" /\ dm.incoming[k].kind = "map") =>
           \A j \in DOMAIN dm.base[k].items \ DOMAIN dm.incoming[k].items :
             /\ j \in DOMAIN dm.after[k].items
             /\ dm.after[k].items[j] = dm.base[k].items[j]

\* A merge in which a nested mapping was merged key by key (one nested key
\* kept from base, one added by incoming) and a scalar replaced a mapping.
C15_Witness ==
  /\ dm.pc = "done"
  /\ \E k \in DOMAIN dm.base \cap DOMAIN dm.incoming :
       /\ dm.base[k].kind = "map" /\ dm.incoming[k].kind = "map"
       /\ DOMAIN dm.base[k].items \ DOMAIN dm.incoming[k].items # { }
       /\ DOMAIN dm.incoming[k].items \ DOMAIN dm.base[k].items # { }
  /\ \E k \in DOMAIN dm.base \cap DOMAIN dm.incoming :
       dm.base[k].kind = "map" /\ dm.incoming[k].kind = "leaf"

\* The add_host calls that have appended host h to group g so far.
Appended(g, h) ==
  { w \in Workers :
      /\ sm.procs[w].host = h
      /\ \E j \in 1..Len(sm.procs[w].groups) :
           /\ sort(sm.procs[w].groups)[j] = g
           /\ j < sm.procs[w].gi }
SMDone == sm.pc = "run" /\ \A w \in Workers : sm.procs[w].pc = "done"
ListOf(g) == IF g \in DOMAIN sm.lists THEN sm.lists[g] ELSE << >>

Written(w) ==
  MagicVars(sm.procs[w].host, sort(sm.procs[w].groups), sm.procs[w].hvars)

\* The entry of host h after the first n completed SharedMap calls, had
\* they run one after the other in the order they completed.
RECURSIVE EntryAfter(_, _)
EntryAfter(h, n) ==
  IF n = 0 THEN EmptyMap
  ELSE LET c == sm.order[n]
       IN IF c.op = "merge" /\ sm.procs[c.w].host = h
          THEN deep_merge_dicts(EntryAfter(h, n - 1), Written(c.w))
          ELSE EntryAfter(h, n - 1)

\* C17: once every concurrent add_host call has returned, no update is
\* lost: each host's entry is what the merges give one after the other in
\* the order they completed, it has every key any merge wrote, a key only
\* one call wrote has that call's value, and every appended host is in its
\* group's list, which is as long as the number of appends to it.
C17_NoLostUpdate ==
  SMDone =>
    /\ \A w \in Workers :
         LET h == sm.procs[w].host
         IN /\ h \in DOMAIN sm.dicts
            /\ sm.dicts[h] = EntryAfter(h, Len(sm.order))
            /\ DOMAIN Written(w) \subseteq DOMAIN sm.dicts[h]
            /\ \A k \in DOMAIN Written(w) :
                 (\A v \in Workers \ { w } :
                     sm.procs[v].host = h => k \notin DOMAIN Written(v))
                   => sm.dicts[h][k] = Written(w)[k]
            /\ \A g \in Range(sm.procs[w].groups) : h \in Range(ListOf(g))
    /\ \A g \in Groups :
         Len(ListOf(g)) =
           Cardinality({ w \in Workers : g \in Range(sm.procs[w].groups) })

\* Two workers wrote different keys of the same host and appended it to the
\* same group, and their SharedMap calls alternated.
C17_Witness ==
  /\ SMDone
  /\ \E w \in Workers : \E v \in Workers :
       /\ w # v
       /\ sm.procs[w].host = sm.procs[v].host
       /\ DOMAIN sm.procs[w].hvars \ DOMAIN sm.procs[v].hvars # { }
       /\ DOMAIN sm.procs[v].hvars \ DOMAIN sm.procs[w].hvars # { }
       /\ Range(sm.procs[w].groups) \cap Range(sm.procs[v].groups) # { }
       /\ Len(sm.order) >= 3
       /\ sm.order[1].w = w /\ sm.order[2].w = v /\ sm.order[3].w = w

PWProbes == SelectSeq(pw.log, LAMBDA e : e.ev = "break_func")
PWSleeps == SelectSeq(pw.log, LAMBDA e : e.ev = "sleep")
PWNever == \A i \in 1..Len(PWProbes) : PWProbes[i].res = None
PWDone == pw.pc = "done"

\* C18 as stated: with a probe that never returns a value,
\* poll_with_timeout(5, probe, 2) returns None after 3 probe invocations,
\* at elapsed sleep times 0, 2 and 4, and total sleep time below 7.
C18_ThreeProbes ==
  (PWDone /\ pw.timeout_s = 5 /\ pw.wake_every_s = 2 /\ PWNever) =>
    /\ pw.ret = None
    /\ Len(PWProbes) = 3
    /\ [ i \in 1..Len(PWProbes) |-> PWProbes[i].at ] = << 0, 2, 4 >>
    /\ pw.time_slept < 7

\* C18 amended: with a probe that never returns a value,
\* poll_with_timeout(5, probe, 2) returns None after 4 probe invocations,
\* at elapsed sleep times 0, 2, 4 and 6, and total sleep time below 7.
C18_FourProbes ==
  (PWDone /\ pw.timeout_s = 5 /\ pw.wake_every_s = 2 /\ PWNever) =>
    /\ pw.ret = None
    /\ Len(PWProbes) = 4
    /\ [ i \in 1..Len(PWProbes) |-> PWProbes[i].at ] = << 0, 2, 4, 6 >>
    /\ pw.time_slept < 7

\* poll_with_timeout(5, probe, 2) returned and the probe never gave a value.
C18_Witness ==
  PWDone /\ pw.timeout_s = 5 /\ pw.wake_every_s = 2 /\ PWNever

\* C19: the first thing poll_with_timeout does is call the probe; a probe
\* call that returns a value other than None is the last thing it does
\* before returning that value (no further sleep, no further probe call);
\* and it returns None only if every probe call returned None.
C19_ReturnsFirstValue ==
  pw.pc # "idle" =>
    /\ pw.log # << >> => pw.log[1].ev = "break_func"
    /\ PWDone => pw.log # << >>
    /\ \A i \in 1..Len(pw.log) :
         (pw.log[i].ev = "break_func" /\ pw.log[i].res # None) =>
           /\ i = Len(pw.log)
           /\ pw.pc \in { "while", "done" }
           /\ PWDone => pw.ret = pw.log[i].res
    /\ (PWDone /\ pw.ret = None) => PWNever

\* The probe returned None, then after a sleep the falsy value 0, which was
\* returned while time was left.
C19_Witness ==
  /\ PWDone
  /\ pw.ret = 0
  /\ Len(PWProbes) >= 2
  /\ pw.time_slept < pw.timeout_s

\* ceil(timeout_s / wake_every_s)
CeilDiv(a, b) == (a + b - 1) \div b

PWCount ==
  pw.pc # "idle" =>
    /\ \A i \in 1..Len(PWSleeps) : PWSleeps[i].at < pw.timeout_s
    /\ Len(PWProbes) <= 1 + CeilDiv(pw.timeout_s, pw.wake_every_s)
    /\ (PWDone /\ PWNever) =>
         /\ pw.ret = None
         /\ Len(PWProbes) = 1 + CeilDiv(pw.timeout_s, pw.wake_every_s)
         /\ pw.timeout_s = 0 => Len(PWProbes) = 1 /\ PWSleeps = << >>

\* C20: for timeout_s >= 0 and wake_every_s > 0, a call whose probe never
\* returns a value terminates and returns None; a sleep starts only while
\* the accumulated sleep time is below timeout_s, so the call makes exactly
\* 1 + ceil(timeout_s / wake_every_s) probe calls, and with timeout_s = 0
\* exactly one probe call and no sleep.
C20_Terminates ==
  /\ []PWCount
  /\ <>PWDone

\* A call with timeout_s not a multiple of wake_every_s returned None after
\* the probe never gave a value: poll_with_timeout(3, probe, 2), 3 probes.
C20_Witness ==
  /\ PWDone
  /\ PWNever
  /\ pw.timeout_s = 3
  /\ pw.wake_every_s = 2
  /\ Len(PWProbes) = 3
\* The units whose create or wait operation timed out.
TimedOut == { u \in Units : unit[u].err = "TimeoutError" }

\* C21: a unit whose create or wait poll timed out has exited with an
\* error after calling that action once and no later phase (so not
\* add_to_inventory); the run never gets past the unit's stage and never
\* completes, and when it has raised it reports that stage as failed.
C21_TimeoutFatal ==
  \A u \in TimedOut :
     /\ unit[u].st = "exit1"
     /\ MyPhases(u)[Last(unit[u].ran)].act \in { "create", "wait_for_running" }
     /\ Occurrences(unit[u].ran, Last(unit[u].ran)) = 1
     /\ "add_to_inventory" \notin RanActs(u)
     /\ stage = StageOf(u)
     /\ opc \in { "run", "failed" }
     /\ opc = "failed" =>
          /\ raised.type = "BangError"
          /\ raised.stage = StageOf(u)
          /\ raised.errors >= 1

\* C21 witness: the run has raised for the stage of a server unit whose
\* create timed out after the instance was launched, while a sibling
\* finished normally.
C21_Witness ==
  /\ opc = "failed"
  /\ \E u \in TimedOut : \E v \in ServerUnits :
        /\ MyPhases(u)[Last(unit[u].ran)].act = "create"
        /\ cloud.servers # cloud0.servers
        /\ unit[v].st = "exit0"

\* Every stage has been run and every worker joined with exit code 0.
RunCompleted ==
  /\ opc = "done"
  /\ stage = NStages - 1
  /\ errors = 0
  /\ \A u \in Units : unit[u].st = "exit0"

\* C22: have_inventory is False on a Stack on which no run has completed
\* and True exactly when a deploy or inventory run has gone through every
\* stage with no failed worker; a step in which the run raises leaves it
\* as it was, and it is never set back on the same Stack.
C22_HaveInventory ==
  /\ [](have_inventory <=> RunCompleted)
  /\ [][ /\ opc' = "failed" => have_inventory' = have_inventory
         /\ (have_inventory /\ ~have_inventory') => run' = run + 1 ]_vars

\* C22 witness: a run in which a worker failed has raised, and
\* have_inventory is still False.
C22_Witness ==
  /\ opc = "failed"
  /\ raised.type = "BangError"
  /\ \E u \in Units : unit[u].st = "exit1" /\ Len(unit[u].ran) >= 2
  /\ ~have_inventory

\* The run failed in planning: it raised with no deployer kept, no
\* process started, no create call made and the backend untouched.
FailedInPlanning ==
  /\ opc = "failed"
  /\ raised.type \in { "Exception", "KeyError", "BangError" }
  /\ raised.errors = 0
  /\ deployers = << >>
  /\ startSeq = << >>
  /\ creates = 0
  /\ cloud = cloud0

\* The provider named by the stack's valid specs has a consul for kind k.
Supported(k) == k \in CONSUL_MAP[config.provider]

\* The units planned for kind k.
UnitsOf(k) == { u \in Units : KindOf(u) = k }

\* The deployers of the run are planned (and kept until the Stack is
\* replaced for a second run).
Planned == opc \in { "run", "done" } \/ (opc = "failed" /\ raised.errors > 0)

\* C23 as stated: a spec that names an unregistered provider or has a key
\* with a hyphen or a space makes the run fail in planning.
C23_AnyBadSpec ==
  (opc # "idle" /\ (config.unregistered # { } \/ config.badkey # { }))
     => FailedInPlanning

\* C23, amended: a spec that names an unregistered provider, or has a
\* malformed key and is one for which the planner constructs a deployer
\* (its provider has a consul for the kind and instance_count is at least
\* 1), makes the run fail in planning, before any worker of any stage is
\* started and before any create call, whatever the stage of the spec.
C23_BadSpecFailsFirst ==
  (opc # "idle"
     /\ \/ config.unregistered # { }
        \/ \E k \in config.badkey :
              /\ Supported(k)
              /\ (k = SERVERS => config.instance_count >= 1))
     => FailedInPlanning

\* C23 witness: the run failed in planning on the malformed key of the
\* server spec, two stages after a valid security-group spec.
C23_Witness ==
  /\ FailedInPlanning
  /\ raised.type = "BangError"
  /\ config.badkey = { SERVERS }
  /\ config.unregistered = { }
  /\ SERVER_SECURITY_GROUPS \in config.present

\* C24 as stated: a kind of the definition with no deployer class makes
\* the run fail in planning.
C24_NoDeployerRejected ==
  (opc # "idle" /\ config.present \ DEPLOYER_MAP # { }) => FailedInPlanning

\* C24, amended: a kind of the definition with no deployer class, for
\* which the spec's provider has a consul, makes the run fail in planning,
\* before any worker is started; no unit is ever planned for a kind
\* without a deployer class.
C24_NoDeployerWithConsul ==
  /\ (opc # "idle"
        /\ \E k \in config.present \ DEPLOYER_MAP : Supported(k))
       => FailedInPlanning
  /\ \A u \in Units : KindOf(u) \in DEPLOYER_MAP

\* C24 witness: planning raised KeyError for the SSH-key spec of an
\* openstack stack that also declares servers.
C24_Witness ==
  /\ FailedInPlanning
  /\ raised.type = "KeyError"
  /\ config.provider = "openstack"
  /\ SSH_KEYS \in config.present
  /\ SERVERS \in config.present

\* No spec of the definition makes planning raise: all name a registered
\* provider, and those the provider supports have a deployer class and no
\* malformed key that a constructor would see.
AllSpecsValid ==
  /\ config.unregistered = { }
  /\ \A k \in config.present :
        Supported(k) =>
          /\ k \in DEPLOYER_MAP
          /\ k \in config.badkey => (k = SERVERS /\ config.instance_count = 0)

\* C25: when the provider has no consul for the kind of a spec and the
\* other specs are valid, planning raises nothing, plans no unit for that
\* spec and plans every other spec; an error of the run, if any, is the
\* failure of a worker.
C25_NoConsulSkipped ==
  \A k \in config.present :
     (~Supported(k) /\ AllSpecsValid /\ opc # "idle") =>
        /\ Planned
        /\ UnitsOf(k) = { }
        /\ \A j \in config.present :
              Supported(j) =>
                 Cardinality(UnitsOf(j)) =
                    (IF j = SERVERS THEN config.instance_count ELSE 1)

\* C25 witness: an aws stack with an SSH-key spec has run to its end, with
\* a security-group unit of the same stage and a server unit of a later
\* stage both finished.
C25_Witness ==
  /\ opc = "done"
  /\ config.provider = "aws"
  /\ SSH_KEYS \in config.present
  /\ \E u \in Units : \E v \in Units :
        /\ KindOf(u) = SERVER_SECURITY_GROUPS /\ unit[u].st = "exit0"
        /\ KindOf(v) = SERVERS /\ unit[v].st = "exit0"

\* The stage (0-based) whose tuple holds kind k.
StageOfKind(k) ==
  (CHOOSE s \in 1..Len(STAGES) : \E i \in 1..Len(STAGES[s]) : STAGES[s][i] = k)
    - 1

\* C26: once the run is planned, every spec whose provider supports its
\* kind has instance_count units (1 for a spec without the key, none for
\* 0), all in the stage of its kind, and each started unit has been
\* started once, as a process of its own.
C26_InstanceCount ==
  Planned =>
     /\ \A k \in config.present :
           Supported(k) =>
              /\ Cardinality(UnitsOf(k)) =
                    (IF k = SERVERS THEN config.instance_count ELSE 1)
              /\ \A u \in UnitsOf(k) : StageOf(u) = StageOfKind(k)
     /\ \A u \in Units : Occurrences(startSeq, u) = (IF Started(u) THEN 1 ELSE 0)

\* C26 witness: both units of a server spec with instance_count 2 are
\* running at once, after the unit of a security-group spec finished.
C26_Witness ==
  /\ config.instance_count = 2
  /\ Cardinality(UnitsOf(SERVERS)) = 2
  /\ \A u \in UnitsOf(SERVERS) : Running(u)
  /\ \E v \in UnitsOf(SERVER_SECURITY_GROUPS) : unit[v].st = "exit0"

\* C26 also: a server spec with instance_count 0 got no unit and the run
\* went through.
C26_ZeroInstances ==
  /\ opc = "done"
  /\ SERVERS \in config.present
  /\ config.instance_count = 0
  /\ UnitsOf(SERVERS) = { }
  /\ Units # { }

\* The calls of one function made so far, by position in gp.calls.
GPCalls(fn) == { i \in 1..Len(gp.calls) : gp.calls[i].fn = fn }

\* C27: in one process at most one provider object exists per provider
\* name, and every get_provider call with a name an earlier call got an
\* object for returns that object, whatever the credentials; every
\* get_consul call that returns a consul returns an object no other call
\* returned, bound to the provider it was called on.
C27_ProviderMemoized ==
  gp.pc = "run" =>
     /\ \A a \in 1..Len(gp.objects) : \A b \in 1..Len(gp.objects) :
           gp.objects[a].class = gp.objects[b].class => a = b
     /\ \A i \in GPCalls("get_provider") : \A j \in GPCalls("get_provider") :
           (i < j /\ gp.calls[i].name = gp.calls[j].name /\ gp.calls[i].res > 0)
              => gp.calls[j].res = gp.calls[i].res
     /\ \A i \in GPCalls("get_consul") : \A j \in GPCalls("get_consul") :
           (i # j /\ gp.calls[i].res > 0) => gp.calls[j].res # gp.calls[i].res
     /\ \A i \in GPCalls("get_consul") :
           gp.calls[i].res > 0 =>
              gp.consuls[gp.calls[i].res] =
                 [ provider |-> gp.calls[i].obj, kind |-> gp.calls[i].kind ]

\* C27 witness: two get_provider calls with the same name and different
\* credentials returned one object, and two get_consul calls on it for the
\* same kind returned two consuls.
C27_Witness ==
  /\ gp.pc = "run"
  /\ \E i \in GPCalls("get_provider") : \E j \in GPCalls("get_provider") :
        /\ i < j
        /\ gp.calls[i].name = gp.calls[j].name
        /\ gp.calls[i].creds # gp.calls[j].creds
        /\ gp.calls[i].res > 0
        /\ gp.calls[j].res = gp.calls[i].res
  /\ \E i \in GPCalls("get_consul") : \E j \in GPCalls("get_consul") :
        /\ i < j
        /\ gp.calls[i].obj = gp.calls[j].obj
        /\ gp.calls[i].kind = gp.calls[j].kind
        /\ gp.calls[i].res > 0
        /\ gp.calls[j].res > gp.calls[i].res

\* C28: every call a regioned deployer makes goes to the region of the
\* deployer's own region_name, however the deployers' steps interleave.
C28_OwnRegion ==
  rg.pc = "run" =>
     \A w \in Regioned : \A i \in 1..Len(rg.calls[w]) :
        rg.calls[w][i] = rg.region_name[w]

\* C28 witness: a deployer has made all its calls, one of them after a
\* sibling with another region_name had selected its region, which the
\* sibling did after the deployer selected its own.
C28_Witness ==
  /\ rg.pc = "run"
  /\ \E w \in Regioned :
        /\ rg.crossed[w]
        /\ Len(rg.calls[w]) = MaxUnitCalls

\* C29: once the backend has rejected a call made from a phase action of
\* the unit, the unit has exited with an error and that phase is the last
\* one it ran.
C29_RejectionFatal ==
  cm.pc = "run" =>
     \A i \in 1..Len(cm.rejected) :
        /\ cm.st = "exit1"
        /\ Last(cm.ran) = cm.rejected[i]

\* Positions of the listed resources that have the name looked up.
FSMatches == { i \in 1..Len(fs.listing) : fs.listing[i].name = fs.name }
\* The first of them in the backend's order.
FSFirst == CHOOSE i \in FSMatches : \A j \in FSMatches : i <= j

\* C30 as stated: a lookup that more than one resource matches ends with
\* the first match and the unit going on, for both kinds.
C30_FirstMatchBoth ==
  (fs.pc = "done" /\ Cardinality(FSMatches) > 1) =>
     /\ ~fs.res.raised
     /\ fs.res.val = fs.listing[FSFirst].id
     /\ fs.st = "running"

\* C30, amended: when more than one resource matches, a security-group
\* lookup ends with the first match and the unit going on; a load-balancer
\* lookup raises ValueError, no match is used and the unit exits with an
\* error.
C30_FirstMatchSecgroup ==
  (fs.pc = "done" /\ Cardinality(FSMatches) > 1) =>
     IF fs.kind = "secgroup"
     THEN /\ ~fs.res.raised
          /\ fs.res.val = fs.listing[FSFirst].id
          /\ fs.st = "running"
     ELSE /\ fs.res.raised
          /\ fs.res.val = None
          /\ fs.st = "exit1"

\* C30 witness: a security-group lookup that two groups match, after a
\* group of another name in the listing, has ended with the first of them.
C30_Witness ==
  /\ fs.pc = "done"
  /\ fs.kind = "secgroup"
  /\ Cardinality(FSMatches) = 2
  /\ FSFirst = 2
  /\ fs.res.val = 2

LBRequired == { [ address |-> h, port |-> lb.host_port ] : h \in lb.host_addresses }
LBHas(nodes, h, p) == { n \in nodes : n.address = h /\ n.port = p }
LBOps(op) == { i \in 1..Len(lb.requests) : lb.requests[i].op = op }

\* C31: after match_lb_nodes has completed, the load balancer has exactly
\* one node (h, p) for each required host h and no other node, and a node
\* was added only for required hosts that had no node on port p.
C31_ExactlyRequired ==
  lb.pc = "done" =>
     /\ \A h \in lb.host_addresses :
           Cardinality(LBHas(lb.nodes, h, lb.host_port)) = 1
     /\ \A n \in lb.nodes : n.address \in lb.host_addresses /\ n.port = lb.host_port
     /\ \A i \in LBOps("add") : \A h \in lb.requests[i].hosts :
           /\ h \in lb.host_addresses
           /\ LBHas(Range(lb.existing_nodes), h, lb.host_port) = { }

\* C34: match_lb_nodes makes its add request before any remove request, and
\* a load balancer that starts with a node and has a required host has a
\* node in every state of the reconciliation.
C34_NeverEmpty ==
  lb.pc # "idle" =>
     /\ \A i \in LBOps("remove") : \A j \in LBOps("add") : j < i
     /\ (lb.existing_nodes # << >> /\ lb.host_addresses # { }) => lb.nodes # { }

\* C34 witness: the call has returned after it added nodes and removed
\* every node the load balancer started with.
C34_Witness ==
  /\ lb.pc = "done"
  /\ lb.existing_nodes # << >>
  /\ LBOps("add") # { }
  /\ Cardinality(LBOps("remove")) = Len(lb.existing_nodes)

\* The sources in merge order: the RC_KEYS part of .bangrc, then the files.
CFSources ==
  << [ k \in { x \in DOMAIN cf.raw : x \in RC_KEYS } |-> cf.raw[k] ] >> \o cf.files
\* The sources that set top-level key k.
CFSetters(k) == { i \in 1..Len(CFSources) : k \in DOMAIN CFSources[i] }
CFMax(S) == CHOOSE x \in S : \A y \in S : y <= x
\* The sources whose mapping under k is part of the result: those after the
\* last source that set k to a leaf.
CFContributors(k) ==
  { i \in CFSetters(k) :
      \A j \in CFSetters(k) : CFSources[j][k].kind = "leaf" => j < i }

Min(a, b) == IF a <= b THEN a ELSE b
InvokedCreate(u) ==
  \E i \in Range(unit[u].ran) : MyPhases(u)[i].act = "create"
HoldsExisting(u) == unit[u].claimed # 0

\* C33: when the n server units of a deploy have run to their end with m
\* matching servers existing at the start of the stage, min(n, m) of them
\* ended discovery holding an existing server, each a different one, and the
\* other n - min(n, m) invoked create.
C33_DiscoveryCount ==
  (action = "deploy" /\ ServerUnits # { }
     /\ \A u \in ServerUnits : unit[u].st = "exit0") =>
     LET n == Cardinality(ServerUnits)
         m == Cardinality(cloud0.servers)
     IN /\ Cardinality({ u \in ServerUnits : HoldsExisting(u) }) = Min(n, m)
        /\ \A u \in ServerUnits : \A v \in ServerUnits :
              (HoldsExisting(u) /\ unit[u].claimed = unit[v].claimed) => u = v
        /\ Cardinality({ u \in ServerUnits : InvokedCreate(u) }) = n - Min(n, m)

\* C35: a declared rule that exists on the group is never queued for
\* creation and no rule is queued for creation twice, whatever the declared
\* list repeats.
C35_NoRequeue ==
  rd.pc = "done" =>
     /\ \A i \in 1..Len(rd.create_these_rules) :
           rd.create_these_rules[i] \notin DOMAIN rd.E
     /\ DuplicateFree(rd.create_these_rules)

\* The unit's find_existing found no resource.
FoundNothing(u) == unit[u].ran # << >> /\ unit[u].attrs = 0

\* C36: in an inventory run of a plan that could be built, in which the
\* backend rejects no call, a unit whose resource does not exist ends
\* without error and adds no host, and the run does not fail.
C36_MissingTolerated ==
  (action = "inventory" /\ faults = 0 /\ ~PlanRaises) =>
     /\ \A u \in Units : FoundNothing(u) => unit[u].st # "exit1"
     /\ raised.type # "BangError"
     /\ \A u \in Units :
           (FoundNothing(u) /\ KindOf(u) = DATABASES) => DbHost \notin DOMAIN dicts
     /\ \A h \in DOMAIN dicts \ { DbHost } :
           \E u \in ServerUnits : unit[u].attrs = h

\* C37: once add_if_unique has returned True for an id, it never returns
\* True for that id again on the namespace of the same key, in the same
\* operation or in a later one on the same Stack object.
C37_OnlyGrows ==
  ops.pc = "stack" =>
     /\ \A id \in OpIds : ~ops.regranted[id]
     /\ \A id \in OpIds : ops.granted[id] # 0 => id \in Range(ops.names)

\* C37 witness: an id claimed in one run was refused in a later run on the
\* same Stack object.
C37_Witness ==
  /\ ops.pc = "stack"
  /\ \E id \in OpIds :
        /\ ops.granted[id] # 0
        /\ ops.refused[id]

OpsDone == { i \in 1..Len(ops.hist) : ops.hist[i].op \in Requiring }

\* C40: configure and show_inventory run a gather pass first exactly when
\* have_inventory is False at the call; after a successful deploy they run
\* none; when the gather pass fails the operation's body is not executed,
\* and otherwise it is.
C40_GatherWhenNeeded ==
  ops.pc = "stack" =>
     /\ \A i \in OpsDone : ops.hist[i].gathered <=> ~ops.hist[i].hi
     /\ \A i \in OpsDone : \A j \in 1..(i - 1) :
           (ops.hist[j].op = "deploy" /\ ops.hist[j].ok) => ~ops.hist[i].gathered
     /\ \A i \in OpsDone :
           ops.hist[i].body <=> (ops.hist[i].gathered => ops.hist[i].gather_ok)

\* C40 witness: a configure whose gather pass failed and whose body did not
\* run, then a successful deploy, then a show_inventory that ran its body
\* without a gather pass.
C40_Witness ==
  /\ ops.pc = "stack"
  /\ Len(ops.hist) = 3
  /\ ops.hist[1].op = "configure"
  /\ ops.hist[1].gathered
  /\ ~ops.hist[1].body
  /\ ops.hist[2].op = "deploy"
  /\ ops.hist[2].ok
  /\ ops.hist[3].op = "show_inventory"
  /\ ~ops.hist[3].gathered
  /\ ops.hist[3].body

\* C38: in every state, under every interleaving of add_host calls, each
\* host in a group list has an entry of host variables, and every append
\* of a call comes after the call's merge.
C38_ListedHostHasVars ==
  sm.pc = "run" =>
     /\ \A g \in DOMAIN sm.lists : \A h \in Range(sm.lists[g]) :
           /\ h \in DOMAIN sm.dicts
           /\ INV_NAME \in DOMAIN sm.dicts[h]
     /\ \A i \in 1..Len(sm.order) :
           sm.order[i].op = "append" =>
              \E j \in 1..(i - 1) :
                 sm.order[j].op = "merge" /\ sm.order[j].w = sm.order[i].w

\* C38 witness: one call has appended its host to a group and has another
\* group to go, while a call for another host is in the middle of its merge.
C38_Witness ==
  /\ sm.pc = "run"
  /\ \E w \in Workers : \E v \in Workers :
        /\ sm.procs[w].host # sm.procs[v].host
        /\ sm.procs[w].pc = "append"
        /\ sm.procs[w].gi = 2
        /\ sm.procs[v].pc = "merge_set"
        /\ sm.procs[v].groups # << >>

\* C39: a unit that left find_def with server_def unset found every
\* candidate href claimed: none is left unclaimed in the namespace.
C39_TriesUnclaimed ==
  fd.pc = "run" =>
     \A u \in Finders :
        (fd.unit[u].st = "done" /\ fd.unit[u].server_def = 0) =>
           \A href \in 1..fd.defs : href \in Range(fd.names)

====
